---- MODULE Spec2Model ----
(***************************************************************************)
(* Debt payoff simulation engine of the Personal Finance Manager:          *)
(*   src/src/utils/debtOptimizer.ts  (baseline, three strategies, scoring) *)
(*   src/src/utils/calculations.ts   (single-loan amortization schedule)   *)
(*                                                                         *)
(* Money is held in hundredths of a currency unit (cents) as integers, so  *)
(* the code's 0.01 tolerance is 1.  A product that the code leaves         *)
(* fractional (interest, proportional lump-sum share) is rounded down to   *)
(* the cent.  interestRate is the annual rate in whole percent.            *)
(* 0/0 in the proportional lump-sum share gives NaN in the code: a record  *)
(* with nan = TRUE stands for one whose balance-derived numbers are NaN    *)
(* (its integer fields then hold 0).                                       *)
(***************************************************************************)
EXTENDS Integers, Sequences, FiniteSets, TLC

VARIABLES
    loans,              \* input: the loan list handed to the engine
    extraPaymentBase,   \* input: monthly extra payment
    lumpSum,            \* input: one-off lump sum
    pc,                 \* position inside optimizeDebtPayoff / the caller
    baselineSchedule,   \* optimizeDebtPayoff: const baselineSchedule
    strategies,         \* optimizeDebtPayoff: const strategies (as computed so far)
    result,             \* the OptimizationResult returned
    amort,              \* the last generateAmortizationSchedule call and its result
    now,                \* the system clock that new Date() reads
    returned            \* what the completed calls of optimizeDebtPayoff returned

vars == <<loans, extraPaymentBase, lumpSum, pc, baselineSchedule, strategies, result, amort,
          now, returned>>

----------------------------------------------------------------------------
(* Bounds and program constants *)

MaxLoans == 2

\* Iterations of a simulation loop the model follows at most; above every
\* ceiling of the code, so that the code's own loop condition ends each loop.
LoopFuel == 1024

\* Instants of the system clock, 0..MaxClock.
MaxClock == 1

\* Calls of optimizeDebtPayoff one caller makes with the same arguments.
MaxCalls == 2

\* Loans in a list that is optimized more than once.
MaxCallLoans == 1

MaxMonths == 600

Tolerance == 1

Cents(units) == units * 100

MinimumPrincipal == Cents(50)

InterestBand == Cents(1000)

MonthsPerYearPercent == 1200

----------------------------------------------------------------------------
(* Arithmetic helpers *)

Min(a, b) == IF a < b THEN a ELSE b

Max(a, b) == IF a > b THEN a ELSE b

Abs(a) == IF a < 0 THEN -a ELSE a

\* balance * (interestRate / 100 / 12), rounded down to the cent; split so
\* that the product does not leave 32 bits.
MonthlyInterestOf(balance, interestRate) ==
    (balance \div MonthsPerYearPercent) * interestRate
    + ((balance % MonthsPerYearPercent) * interestRate) \div MonthsPerYearPercent

\* a * b / c rounded down, for a, b >= 0 and c > 0, by halving b so that no
\* intermediate product leaves 32 bits.
RECURSIVE MulDiv(_, _, _)
MulDiv(a, b, c) ==
    IF b = 0 THEN [q |-> 0, r |-> 0]
    ELSE LET h == MulDiv(a, b \div 2, c)
             t == 2 * h.r + (b % 2) * (a % c)
         IN  [q |-> 2 * h.q + (b % 2) * (a \div c) + t \div c, r |-> t % c]

\* The sum of a sequence of numbers (a reduce with +), by halves.
RECURSIVE SumSeq(_)
SumSeq(s) ==
    IF Len(s) = 0 THEN 0
    ELSE IF Len(s) = 1 THEN s[1]
    ELSE SumSeq(SubSeq(s, 1, Len(s) \div 2)) + SumSeq(SubSeq(s, Len(s) \div 2 + 1, Len(s)))

RECURSIVE ConcatAll(_)
ConcatAll(ss) ==
    IF Len(ss) = 0 THEN <<>>
    ELSE IF Len(ss) = 1 THEN ss[1]
    ELSE ConcatAll(SubSeq(ss, 1, Len(ss) \div 2))
            \o ConcatAll(SubSeq(ss, Len(ss) \div 2 + 1, Len(ss)))

\* The sequence f as an explicit tuple (its elements computed once).
Tuple(f) == SubSeq(f, 1, Len(f))

\* reduce((sum, x) => sum + x[field], 0)
SumOf(s, field) == SumSeq([i \in 1..Len(s) |-> s[i][field]])

----------------------------------------------------------------------------
(* Inputs *)

\* Loan records the engine is exercised on (amounts in currency units):
\* ordinary amortizing loans of different size and rate, a loan whose payment
\* does not cover its interest, a settled loan, a loan with a negative
\* payment, and a loan large enough for the 1000-unit indifference band.
LoanPool ==
    { [currentBalance |-> Cents(300),    interestRate |-> 12, monthlyPayment |-> Cents(30),    termMonths |-> 12],
      [currentBalance |-> Cents(1000),   interestRate |-> 12, monthlyPayment |-> Cents(30),    termMonths |-> 12],
      [currentBalance |-> Cents(2000),   interestRate |-> 24, monthlyPayment |-> Cents(500),   termMonths |-> 6],
      [currentBalance |-> Cents(1000),   interestRate |-> 12, monthlyPayment |-> 0,            termMonths |-> 1],
      [currentBalance |-> 0,             interestRate |-> 12, monthlyPayment |-> Cents(50),    termMonths |-> 12],
      [currentBalance |-> Cents(100),    interestRate |-> 0,  monthlyPayment |-> -Cents(5),    termMonths |-> 2],
      [currentBalance |-> Cents(100000), interestRate |-> 24, monthlyPayment |-> Cents(10000), termMonths |-> 12] }

ExtraChoices == {0, Cents(100), Cents(10000)}

LumpChoices == {0, Cents(150)}

\* Lump sums for a single loan's schedule: also one that leaves exactly one
\* hundredth of the 100-unit loan.
AmortLumpChoices == LumpChoices \cup {Cents(100) - 1}

\* A loan list: ids are unique (the position in the list).
LoanLists ==
    UNION { { [i \in 1..n |->
                 [id |-> i,
                  currentBalance |-> f[i].currentBalance,
                  interestRate |-> f[i].interestRate,
                  monthlyPayment |-> f[i].monthlyPayment,
                  termMonths |-> f[i].termMonths]] : f \in [1..n -> LoanPool] }
            : n \in 0..MaxLoans }

----------------------------------------------------------------------------
(* calculateBaselineSchedule *)

BaselineLoanState(loan) ==
    [id |-> loan.id,
     currentBalance |-> loan.currentBalance,
     interestRate |-> loan.interestRate,
     originalMonthlyPayment |-> loan.monthlyPayment,
     currentMinimumPayment |-> loan.monthlyPayment,
     termMonths |-> loan.termMonths,
     isPaidOff |-> FALSE,
     paidOffMonth |-> 0]

NotPaidOff(ls) == ~ls.isPaidOff

\* loanStates.filter(loan => !loan.isPaidOff).length
CountNotPaidOff(loanStates) == Len(SelectSeq(loanStates, NotPaidOff))

\* One loan's turn in the forEach of a baseline month: the loan state after
\* it and the payment entry pushed (none when the loan is skipped).
BaselinePayment(ls, month) ==
    IF ~ls.isPaidOff /\ ls.currentBalance > Tolerance
    THEN LET monthlyInterest == MonthlyInterestOf(ls.currentBalance, ls.interestRate)
             raw == ls.currentMinimumPayment - monthlyInterest
             capped == IF raw > ls.currentBalance THEN ls.currentBalance ELSE raw
             principalPayment == IF capped < 0 THEN 0 ELSE capped
             newBalance == ls.currentBalance - principalPayment
             paid == newBalance <= Tolerance
             after == [ls EXCEPT !.currentBalance = IF paid THEN 0 ELSE newBalance,
                                 !.isPaidOff = paid,
                                 !.paidOffMonth = IF paid THEN month ELSE @]
         IN  [state |-> after,
              entries |-> << [loanId |-> ls.id,
                              month |-> month,
                              currentBalance |-> after.currentBalance + principalPayment,
                              monthlyInterest |-> monthlyInterest,
                              minimumPayment |-> ls.currentMinimumPayment,
                              principalPayment |-> principalPayment,
                              extraPayment |-> 0,
                              totalPayment |-> ls.currentMinimumPayment,
                              remainingBalance |-> after.currentBalance,
                              isExtraPayment |-> FALSE,
                              isPaidOff |-> after.isPaidOff] >>]
    ELSE [state |-> ls, entries |-> <<>>]

\* The body of the baseline while loop: one month.
BaselineMonth(run) ==
    LET turns == Tuple([i \in 1..Len(run.loanStates) |-> BaselinePayment(run.loanStates[i], run.month)])
        payments == ConcatAll([i \in 1..Len(turns) |-> turns[i].entries])
        monthlyPlan ==
            [month |-> run.month,
             payments |-> payments,
             totalPayment |-> SumOf(payments, "minimumPayment"),
             totalInterest |-> SumOf(payments, "monthlyInterest"),
             totalPrincipal |-> SumOf(payments, "principalPayment"),
             remainingDebts |-> CountNotPaidOff(run.loanStates),
             extraPaymentPool |-> 0,
             totalScrapeSavings |-> 0,
             totalFreedPayments |-> 0,
             activeLoanCount |-> CountNotPaidOff(run.loanStates)]
    IN  [run EXCEPT !.loanStates = Tuple([i \in 1..Len(turns) |-> turns[i].state]),
                    !.schedule = Append(@, monthlyPlan),
                    !.month = @ + 1]

\* Mutant: the loop runs while every loan is unpaid (every for some).
BaselineContinue_UntilFirstPayoff(run) ==
    /\ \A i \in 1..Len(run.loanStates) : ~run.loanStates[i].isPaidOff
    /\ run.month <= MaxMonths

\* Mutant: the ceiling is tested with < instead of <=.
BaselineContinue_EarlyCeiling(run) ==
    /\ \E i \in 1..Len(run.loanStates) : ~run.loanStates[i].isPaidOff
    /\ run.month < MaxMonths

BaselineContinue(run) ==
    /\ \E i \in 1..Len(run.loanStates) : ~run.loanStates[i].isPaidOff
    /\ run.month <= MaxMonths

\* while (BaselineContinue) BaselineMonth: the body is applied as long as the
\* condition holds; the iterations are split in halves only to keep the
\* evaluation shallow.
RECURSIVE BaselineLoop(_, _)
BaselineLoop(run, fuel) ==
    IF fuel = 0 \/ ~BaselineContinue(run) THEN run
    ELSE IF fuel = 1 THEN BaselineMonth(run)
    ELSE BaselineLoop(BaselineLoop(run, fuel \div 2), fuel - (fuel \div 2))

BaselineRun(loanList) ==
    BaselineLoop([loanStates |-> Tuple([i \in 1..Len(loanList) |-> BaselineLoanState(loanList[i])]),
                  month |-> 1,
                  schedule |-> <<>>], LoopFuel)

calculateBaselineSchedule(loanList) == BaselineRun(loanList).schedule

----------------------------------------------------------------------------
(* generateAmortizationSchedule *)

\* Mutant: the loop runs while any balance is left, without the tolerance.
AmortContinue_NoTolerance(run) ==
    /\ ~run.stopped
    /\ run.remainingBalance > 0
    /\ run.month <= run.loan.termMonths * 3

\* Mutant: the ceiling is termMonths / 3 instead of termMonths * 3.
AmortContinue_DividedCeiling(run) ==
    /\ ~run.stopped
    /\ run.remainingBalance > Tolerance
    /\ run.month <= run.loan.termMonths \div 3

AmortContinue(run) ==
    /\ ~run.stopped
    /\ run.remainingBalance > Tolerance
    /\ run.month <= run.loan.termMonths * 3

\* Mutant: the extra payment is subtracted from the principal.
AmortMonth_ExtraSubtracted(run) ==
    LET interestPayment == MonthlyInterestOf(run.remainingBalance, run.loan.interestRate)
        principalPayment == Min(run.loan.monthlyPayment - interestPayment - run.extraPayment,
                                run.remainingBalance)
        remainingBalance == run.remainingBalance - principalPayment
        item == [month |-> run.month,
                 monthlyPayment |-> run.loan.monthlyPayment,
                 principal |-> principalPayment,
                 interest |-> interestPayment,
                 extraPayment |-> run.extraPayment,
                 remainingBalance |-> Max(0, remainingBalance),
                 cumulativeInterest |-> run.cumulativeInterest + interestPayment,
                 cumulativePrincipal |-> run.cumulativePrincipal + principalPayment]
    IN  [run EXCEPT !.remainingBalance = remainingBalance,
                    !.cumulativeInterest = @ + interestPayment,
                    !.cumulativePrincipal = @ + principalPayment,
                    !.schedule = Append(@, item),
                    !.month = @ + 1,
                    !.stopped = remainingBalance <= 0]

\* The body of the while loop: one schedule item.
AmortMonth(run) ==
    LET interestPayment == MonthlyInterestOf(run.remainingBalance, run.loan.interestRate)
        principalPayment == Min(run.loan.monthlyPayment - interestPayment + run.extraPayment,
                                run.remainingBalance)
        remainingBalance == run.remainingBalance - principalPayment
        item == [month |-> run.month,
                 monthlyPayment |-> run.loan.monthlyPayment,
                 principal |-> principalPayment,
                 interest |-> interestPayment,
                 extraPayment |-> run.extraPayment,
                 remainingBalance |-> Max(0, remainingBalance),
                 cumulativeInterest |-> run.cumulativeInterest + interestPayment,
                 cumulativePrincipal |-> run.cumulativePrincipal + principalPayment]
    IN  [run EXCEPT !.remainingBalance = remainingBalance,
                    !.cumulativeInterest = @ + interestPayment,
                    !.cumulativePrincipal = @ + principalPayment,
                    !.schedule = Append(@, item),
                    !.month = @ + 1,
                    !.stopped = remainingBalance <= 0]

RECURSIVE AmortLoop(_, _)
AmortLoop(run, fuel) ==
    IF fuel = 0 \/ ~AmortContinue(run) THEN run
    ELSE IF fuel = 1 THEN AmortMonth(run)
    ELSE AmortLoop(AmortLoop(run, fuel \div 2), fuel - (fuel \div 2))

\* Mutant: cumulativePrincipal starts at zero, the lump sum left out.
generateAmortizationSchedule_PrincipalFromZero(loan, extraPayment, lump) ==
    AmortLoop([loan |-> loan,
               extraPayment |-> extraPayment,
               remainingBalance |-> loan.currentBalance - lump,
               cumulativeInterest |-> 0,
               cumulativePrincipal |-> 0,
               month |-> 1,
               schedule |-> <<>>,
               stopped |-> FALSE], LoopFuel).schedule

generateAmortizationSchedule(loan, extraPayment, lump) ==
    AmortLoop([loan |-> loan,
               extraPayment |-> extraPayment,
               remainingBalance |-> loan.currentBalance - lump,
               cumulativeInterest |-> 0,
               cumulativePrincipal |-> lump,
               month |-> 1,
               schedule |-> <<>>,
               stopped |-> FALSE], LoopFuel).schedule

----------------------------------------------------------------------------
(* Array.prototype.sort and find, as the strategies use them *)

\* Highest interest rate first, larger balance among equal rates.
\* Mutant: among equal rates the smaller balance goes first.
AvalancheCompare_SmallerOnTie(a, b) ==
    IF a.interestRate = b.interestRate
    THEN a.currentBalance - b.currentBalance
    ELSE b.interestRate - a.interestRate

AvalancheCompare(a, b) ==
    IF a.interestRate = b.interestRate
    THEN b.currentBalance - a.currentBalance
    ELSE b.interestRate - a.interestRate

\* The comparator of Step 2: the tie test is on the interest rates, and it
\* is the balances that are compared when the rates differ.
SnowballCompare(a, b) ==
    IF a.interestRate = b.interestRate
    THEN b.interestRate - a.interestRate
    ELSE a.currentBalance - b.currentBalance

\* [...loans].sort((a, b) => a.currentBalance - b.currentBalance)
ByBalance(a, b) == a.currentBalance - b.currentBalance

\* Smallest balance first, higher interest rate among equal balances.
ScrapesCompare(a, b) ==
    IF Abs(a.currentBalance - b.currentBalance) < Tolerance
    THEN b.interestRate - a.interestRate
    ELSE a.currentBalance - b.currentBalance

\* The comparator a sort is called with.
Compare(order, a, b) ==
    CASE order = "avalanche" -> AvalancheCompare(a, b)
      [] order = "snowball" -> SnowballCompare(a, b)
      [] order = "scrapes" -> ScrapesCompare(a, b)
      [] order = "balance" -> ByBalance(a, b)

\* Where a stable insertion puts x into sorted: after every element that
\* does not compare greater than x.
InsertAt(sorted, x, order) ==
    CHOOSE p \in 0..Len(sorted) :
        /\ \A j \in (p + 1)..Len(sorted) : Compare(order, sorted[j], x) > 0
        /\ p = 0 \/ ~(Compare(order, sorted[p], x) > 0)

\* s.sort(comparator): stable.  (With a comparator that is no ordering the
\* engine's order for three or more elements is implementation-defined; the
\* model inserts one by one.)
ArraySort(s, order) ==
    LET ins[k \in 0..Len(s)] ==
            IF k = 0 THEN <<>>
            ELSE LET p == InsertAt(ins[k - 1], s[k], order)
                 IN  SubSeq(ins[k - 1], 1, p) \o <<s[k]>> \o SubSeq(ins[k - 1], p + 1, k - 1)
    IN  ins[Len(s)]

\* findIndex over the outcomes of the test: the first TRUE, 0 when none.
FindIndex(hits) ==
    IF \E i \in 1..Len(hits) : hits[i]
    THEN CHOOSE i \in 1..Len(hits) : hits[i] /\ \A j \in 1..(i - 1) : ~hits[j]
    ELSE 0

\* Mutant: the loop is left as soon as some loan is paid off.
AllPaidOff_Some(loanStates) ==
    \E i \in 1..Len(loanStates) : loanStates[i].isPaidOff

AllPaidOff(loanStates) == \A i \in 1..Len(loanStates) : loanStates[i].isPaidOff

----------------------------------------------------------------------------
(* calculatePerDebtDetails *)

\* Mutant: the 0-based findIndex result is used without adding 1.
PerDebtDetail_ZeroBased(loan, schedule) ==
    LET HasPayoff(plan) == \E k \in 1..Len(plan.payments) :
                               plan.payments[k].loanId = loan.id /\ plan.payments[k].isPaidOff
        payoffMonth == FindIndex([m \in 1..Len(schedule) |-> HasPayoff(schedule[m])]) - 1
        \* payment?.monthlyInterest || 0 of the first entry of the loan
        InterestIn(plan) ==
            LET k == FindIndex([i \in 1..Len(plan.payments) |-> plan.payments[i].loanId = loan.id])
            IN  IF k = 0 \/ plan.payments[k].nan THEN 0 ELSE plan.payments[k].monthlyInterest
        loanTotalInterest == SumSeq([m \in 1..Len(schedule) |-> InterestIn(schedule[m])])
        loanBaseline == generateAmortizationSchedule(loan, 0, 0)
        baselineTotalInterest == SumOf(loanBaseline, "interest")
        baselineMonths == Len(loanBaseline)
    IN  [loanId |-> loan.id,
         totalInterest |-> loanTotalInterest,
         interestSaved |-> baselineTotalInterest - loanTotalInterest,
         monthsSaved |-> Max(0, baselineMonths - (IF payoffMonth # 0 THEN payoffMonth ELSE baselineMonths)),
         payoffMonth |-> IF payoffMonth # 0 THEN payoffMonth ELSE baselineMonths]

PerDebtDetail(loan, schedule) ==
    LET HasPayoff(plan) == \E k \in 1..Len(plan.payments) :
                               plan.payments[k].loanId = loan.id /\ plan.payments[k].isPaidOff
        payoffMonth == FindIndex([m \in 1..Len(schedule) |-> HasPayoff(schedule[m])])
        \* payment?.monthlyInterest || 0 of the first entry of the loan
        InterestIn(plan) ==
            LET k == FindIndex([i \in 1..Len(plan.payments) |-> plan.payments[i].loanId = loan.id])
            IN  IF k = 0 \/ plan.payments[k].nan THEN 0 ELSE plan.payments[k].monthlyInterest
        loanTotalInterest == SumSeq([m \in 1..Len(schedule) |-> InterestIn(schedule[m])])
        loanBaseline == generateAmortizationSchedule(loan, 0, 0)
        baselineTotalInterest == SumOf(loanBaseline, "interest")
        baselineMonths == Len(loanBaseline)
    IN  [loanId |-> loan.id,
         totalInterest |-> loanTotalInterest,
         interestSaved |-> baselineTotalInterest - loanTotalInterest,
         monthsSaved |-> Max(0, baselineMonths - (IF payoffMonth # 0 THEN payoffMonth ELSE baselineMonths)),
         payoffMonth |-> IF payoffMonth # 0 THEN payoffMonth ELSE baselineMonths]

calculatePerDebtDetails(loanList, schedule) ==
    Tuple([i \in 1..Len(loanList) |-> PerDebtDetail(loanList[i], schedule)])

----------------------------------------------------------------------------
(* calculateAvalancheFixedStrategy *)

TotalBalance(loanList) == SumSeq([i \in 1..Len(loanList) |-> loanList[i].currentBalance])

\* loan.currentBalance - lumpSum * (loan.currentBalance / total): with the
\* total 0 the quotient is 0/0 (balances are not negative), which is NaN.
ProportionalLoanState(loan, loanList, lump) ==
    LET total == TotalBalance(loanList)
    IN  [id |-> loan.id,
         currentBalance |-> IF total = 0 THEN 0
                            ELSE loan.currentBalance - MulDiv(lump, loan.currentBalance, total).q,
         nan |-> total = 0,
         interestRate |-> loan.interestRate,
         originalMonthlyPayment |-> loan.monthlyPayment,
         currentMinimumPayment |-> loan.monthlyPayment,
         termMonths |-> loan.termMonths,
         isPaidOff |-> FALSE,
         paidOffMonth |-> 0]

\* A payment entry of Step 1 whose numbers are NaN; nothing compares <= 0.01
\* to NaN, so the loan is not paid off.
NaNEntry(ls, month) ==
    [loanId |-> ls.id, month |-> month, currentBalance |-> 0, monthlyInterest |-> 0,
     minimumPayment |-> ls.currentMinimumPayment, principalPayment |-> 0,
     extraPayment |-> 0, totalPayment |-> ls.currentMinimumPayment,
     remainingBalance |-> 0, isExtraPayment |-> FALSE, isPaidOff |-> FALSE,
     freedPayment |-> 0, nan |-> TRUE]

\* Mutant: Step 1 does not skip the loans that are already paid off.
AvalanchePayment_NoPaidOffGuard(ls, month) ==
    IF ls.nan THEN [state |-> ls, entries |-> <<NaNEntry(ls, month)>>, interest |-> 0]
    ELSE LET monthlyInterest == MonthlyInterestOf(ls.currentBalance, ls.interestRate)
             principalPayment == Min(ls.currentMinimumPayment - monthlyInterest, ls.currentBalance)
             newBalance == ls.currentBalance - principalPayment
             paid == newBalance <= Tolerance
             after == [ls EXCEPT !.currentBalance = IF paid THEN 0 ELSE newBalance,
                                 !.isPaidOff = paid,
                                 !.paidOffMonth = IF paid THEN month ELSE @]
         IN  [state |-> after,
              interest |-> monthlyInterest,
              entries |-> << [loanId |-> ls.id,
                              month |-> month,
                              currentBalance |-> after.currentBalance + principalPayment,
                              monthlyInterest |-> monthlyInterest,
                              minimumPayment |-> ls.currentMinimumPayment,
                              principalPayment |-> principalPayment,
                              extraPayment |-> 0,
                              totalPayment |-> ls.currentMinimumPayment,
                              remainingBalance |-> after.currentBalance,
                              isExtraPayment |-> FALSE,
                              isPaidOff |-> after.isPaidOff,
                              freedPayment |-> 0,
                              nan |-> FALSE] >>]

\* Step 1 for one loan: minimum payment, no clamp of a negative principal.
AvalanchePayment(ls, month) ==
    IF ls.isPaidOff THEN [state |-> ls, entries |-> <<>>, interest |-> 0]
    ELSE IF ls.nan THEN [state |-> ls, entries |-> <<NaNEntry(ls, month)>>, interest |-> 0]
    ELSE LET monthlyInterest == MonthlyInterestOf(ls.currentBalance, ls.interestRate)
             principalPayment == Min(ls.currentMinimumPayment - monthlyInterest, ls.currentBalance)
             newBalance == ls.currentBalance - principalPayment
             paid == newBalance <= Tolerance
             after == [ls EXCEPT !.currentBalance = IF paid THEN 0 ELSE newBalance,
                                 !.isPaidOff = paid,
                                 !.paidOffMonth = IF paid THEN month ELSE @]
         IN  [state |-> after,
              interest |-> monthlyInterest,
              entries |-> << [loanId |-> ls.id,
                              month |-> month,
                              currentBalance |-> after.currentBalance + principalPayment,
                              monthlyInterest |-> monthlyInterest,
                              minimumPayment |-> ls.currentMinimumPayment,
                              principalPayment |-> principalPayment,
                              extraPayment |-> 0,
                              totalPayment |-> ls.currentMinimumPayment,
                              remainingBalance |-> after.currentBalance,
                              isExtraPayment |-> FALSE,
                              isPaidOff |-> after.isPaidOff,
                              freedPayment |-> 0,
                              nan |-> FALSE] >>]

\* Step 2 of the fixed strategies once the target is chosen: the extra
\* principal, the payoff check and the update of the target's payment record.
\* Mutant: the whole extra payment is applied, whatever the balance.
ApplyFixedExtra_NoCap(loanStates, plan, target, extra, month) ==
    LET extraPrincipal == IF target.nan THEN 0 ELSE extra
        newBalance == target.currentBalance - extraPrincipal
        paid == ~target.nan /\ newBalance <= Tolerance
        after == [target EXCEPT !.currentBalance = IF paid THEN 0 ELSE newBalance,
                                !.isPaidOff = paid,
                                !.paidOffMonth = IF paid THEN month ELSE @]
        at == FindIndex([i \in 1..Len(loanStates) |-> loanStates[i].id = target.id])
        rec == FindIndex([i \in 1..Len(plan.payments) |-> plan.payments[i].loanId = target.id])
        payments == IF rec = 0 THEN plan.payments
                    ELSE [plan.payments EXCEPT
                            ![rec].extraPayment = extraPrincipal,
                            ![rec].principalPayment = @ + extraPrincipal,
                            ![rec].totalPayment = @ + extraPrincipal,
                            ![rec].remainingBalance = after.currentBalance,
                            ![rec].isExtraPayment = TRUE,
                            ![rec].isPaidOff = after.isPaidOff]
    IN  [loanStates |-> [loanStates EXCEPT ![at] = after],
         plan |-> [plan EXCEPT !.payments = payments,
                               !.totalPayment = @ + extraPrincipal,
                               !.totalPrincipal = @ + extraPrincipal]]

ApplyFixedExtra(loanStates, plan, target, extra, month) ==
    LET extraPrincipal == IF target.nan THEN 0 ELSE Min(extra, target.currentBalance)
        newBalance == target.currentBalance - extraPrincipal
        paid == ~target.nan /\ newBalance <= Tolerance
        after == [target EXCEPT !.currentBalance = IF paid THEN 0 ELSE newBalance,
                                !.isPaidOff = paid,
                                !.paidOffMonth = IF paid THEN month ELSE @]
        at == FindIndex([i \in 1..Len(loanStates) |-> loanStates[i].id = target.id])
        rec == FindIndex([i \in 1..Len(plan.payments) |-> plan.payments[i].loanId = target.id])
        payments == IF rec = 0 THEN plan.payments
                    ELSE [plan.payments EXCEPT
                            ![rec].extraPayment = extraPrincipal,
                            ![rec].principalPayment = @ + extraPrincipal,
                            ![rec].totalPayment = @ + extraPrincipal,
                            ![rec].remainingBalance = after.currentBalance,
                            ![rec].isExtraPayment = TRUE,
                            ![rec].isPaidOff = after.isPaidOff]
    IN  [loanStates |-> [loanStates EXCEPT ![at] = after],
         plan |-> [plan EXCEPT !.payments = payments,
                               !.totalPayment = @ + extraPrincipal,
                               !.totalPrincipal = @ + extraPrincipal]]

\* The body of the while loop: one month.
AvalancheMonth(run) ==
    LET turns == Tuple([i \in 1..Len(run.loanStates) |-> AvalanchePayment(run.loanStates[i], run.month)])
        payments == ConcatAll([i \in 1..Len(turns) |-> turns[i].entries])
        afterStep1 == Tuple([i \in 1..Len(turns) |-> turns[i].state])
        paidInterest == SumSeq([i \in 1..Len(turns) |-> turns[i].interest])
        monthlyPlan ==
            [month |-> run.month,
             payments |-> payments,
             totalPayment |-> SumOf(payments, "minimumPayment"),
             totalInterest |-> SumOf(payments, "monthlyInterest"),
             totalPrincipal |-> SumOf(payments, "principalPayment"),
             remainingDebts |-> CountNotPaidOff(run.loanStates),
             extraPaymentPool |-> run.fixedExtraPayment,
             totalScrapeSavings |-> 0,
             totalFreedPayments |-> 0,
             activeLoanCount |-> CountNotPaidOff(run.loanStates),
             nan |-> \E k \in 1..Len(payments) : payments[k].nan]
        candidates == ArraySort(SelectSeq(afterStep1, NotPaidOff), "avalanche")
        step2 == IF run.fixedExtraPayment > 0 /\ candidates # <<>>
                 THEN ApplyFixedExtra(afterStep1, monthlyPlan, candidates[1],
                                      run.fixedExtraPayment, run.month)
                 ELSE [loanStates |-> afterStep1, plan |-> monthlyPlan]
    IN  [run EXCEPT !.loanStates = step2.loanStates,
                    !.totalInterest = @ + paidInterest,
                    !.nan = @ \/ monthlyPlan.nan,
                    !.schedule = Append(@, step2.plan),
                    !.month = @ + 1,
                    !.stopped = AllPaidOff(step2.loanStates)]

\* Mutant: the ceiling lets one more month through.
FixedContinue_OffByOne(run) ==
    /\ ~run.stopped
    /\ \E i \in 1..Len(run.loanStates) : ~run.loanStates[i].isPaidOff
    /\ run.month <= MaxMonths + 1

FixedContinue(run) ==
    /\ ~run.stopped
    /\ \E i \in 1..Len(run.loanStates) : ~run.loanStates[i].isPaidOff
    /\ run.month <= MaxMonths

RECURSIVE AvalancheLoop(_, _)
AvalancheLoop(run, fuel) ==
    IF fuel = 0 \/ ~FixedContinue(run) THEN run
    ELSE IF fuel = 1 THEN AvalancheMonth(run)
    ELSE AvalancheLoop(AvalancheLoop(run, fuel \div 2), fuel - (fuel \div 2))

FixedRunStart(loanList, extra, lump) ==
    [loanStates |-> Tuple([i \in 1..Len(loanList) |-> ProportionalLoanState(loanList[i], loanList, lump)]),
     month |-> 1,
     totalInterest |-> 0,
     nan |-> FALSE,
     fixedExtraPayment |-> extra,
     schedule |-> <<>>,
     stopped |-> FALSE]

StrategyOf(type, run, loanList) ==
    [type |-> type,
     totalInterest |-> IF run.nan THEN 0 ELSE run.totalInterest,
     nan |-> run.nan,
     interestSaved |-> 0,
     monthsSaved |-> 0,
     monthlySchedule |-> run.schedule,
     perDebtDetails |-> calculatePerDebtDetails(loanList, run.schedule)]

calculateAvalancheFixedStrategy(loanList, extra, lump) ==
    StrategyOf("avalanche_fixed", AvalancheLoop(FixedRunStart(loanList, extra, lump), LoopFuel), loanList)

----------------------------------------------------------------------------
(* calculateSnowballFixedStrategy *)

\* Step 1 for one loan: as in the avalanche, but a negative principal is
\* replaced by min(balance, 50).
\* Mutant: the floor replaces every principal below it, not only a
\* negative one.
SnowballPayment_FloorBelowMinimum(ls, month) ==
    IF ls.isPaidOff THEN [state |-> ls, entries |-> <<>>, interest |-> 0]
    ELSE IF ls.nan
    THEN [state |-> ls, interest |-> 0,
          entries |-> << [scrapeSaving |-> 0] @@ NaNEntry(ls, month) >>]
    ELSE LET monthlyInterest == MonthlyInterestOf(ls.currentBalance, ls.interestRate)
             uncapped == Min(ls.currentMinimumPayment - monthlyInterest, ls.currentBalance)
             principalPayment == IF uncapped < MinimumPrincipal
                                 THEN Min(ls.currentBalance, MinimumPrincipal)
                                 ELSE uncapped
             newBalance == ls.currentBalance - principalPayment
             paid == newBalance <= Tolerance
             after == [ls EXCEPT !.currentBalance = IF paid THEN 0 ELSE newBalance,
                                 !.isPaidOff = paid,
                                 !.paidOffMonth = IF paid THEN month ELSE @]
         IN  [state |-> after,
              interest |-> monthlyInterest,
              entries |-> << [loanId |-> ls.id,
                              month |-> month,
                              currentBalance |-> after.currentBalance + principalPayment,
                              monthlyInterest |-> monthlyInterest,
                              minimumPayment |-> ls.currentMinimumPayment,
                              principalPayment |-> principalPayment,
                              extraPayment |-> 0,
                              totalPayment |-> ls.currentMinimumPayment,
                              remainingBalance |-> after.currentBalance,
                              isExtraPayment |-> FALSE,
                              isPaidOff |-> after.isPaidOff,
                              freedPayment |-> 0,
                              scrapeSaving |-> 0,
                              nan |-> FALSE] >>]

SnowballPayment(ls, month) ==
    IF ls.isPaidOff THEN [state |-> ls, entries |-> <<>>, interest |-> 0]
    ELSE IF ls.nan
    THEN [state |-> ls, interest |-> 0,
          entries |-> << [scrapeSaving |-> 0] @@ NaNEntry(ls, month) >>]
    ELSE LET monthlyInterest == MonthlyInterestOf(ls.currentBalance, ls.interestRate)
             uncapped == Min(ls.currentMinimumPayment - monthlyInterest, ls.currentBalance)
             principalPayment == IF uncapped < 0
                                 THEN Min(ls.currentBalance, MinimumPrincipal)
                                 ELSE uncapped
             newBalance == ls.currentBalance - principalPayment
             paid == newBalance <= Tolerance
             after == [ls EXCEPT !.currentBalance = IF paid THEN 0 ELSE newBalance,
                                 !.isPaidOff = paid,
                                 !.paidOffMonth = IF paid THEN month ELSE @]
         IN  [state |-> after,
              interest |-> monthlyInterest,
              entries |-> << [loanId |-> ls.id,
                              month |-> month,
                              currentBalance |-> after.currentBalance + principalPayment,
                              monthlyInterest |-> monthlyInterest,
                              minimumPayment |-> ls.currentMinimumPayment,
                              principalPayment |-> principalPayment,
                              extraPayment |-> 0,
                              totalPayment |-> ls.currentMinimumPayment,
                              remainingBalance |-> after.currentBalance,
                              isExtraPayment |-> FALSE,
                              isPaidOff |-> after.isPaidOff,
                              freedPayment |-> 0,
                              scrapeSaving |-> 0,
                              nan |-> FALSE] >>]

SnowballMonth(run) ==
    LET turns == Tuple([i \in 1..Len(run.loanStates) |-> SnowballPayment(run.loanStates[i], run.month)])
        payments == ConcatAll([i \in 1..Len(turns) |-> turns[i].entries])
        afterStep1 == Tuple([i \in 1..Len(turns) |-> turns[i].state])
        paidInterest == SumSeq([i \in 1..Len(turns) |-> turns[i].interest])
        monthlyPlan ==
            [month |-> run.month,
             payments |-> payments,
             totalPayment |-> SumOf(payments, "minimumPayment"),
             totalInterest |-> SumOf(payments, "monthlyInterest"),
             totalPrincipal |-> SumOf(payments, "principalPayment"),
             remainingDebts |-> CountNotPaidOff(run.loanStates),
             extraPaymentPool |-> run.fixedExtraPayment,
             totalScrapeSavings |-> 0,
             totalFreedPayments |-> 0,
             activeLoanCount |-> CountNotPaidOff(run.loanStates),
             nan |-> \E k \in 1..Len(payments) : payments[k].nan]
        candidates == ArraySort(SelectSeq(afterStep1, NotPaidOff), "snowball")
        step2 == IF run.fixedExtraPayment > 0 /\ candidates # <<>>
                 THEN ApplyFixedExtra(afterStep1, monthlyPlan, candidates[1],
                                      run.fixedExtraPayment, run.month)
                 ELSE [loanStates |-> afterStep1, plan |-> monthlyPlan]
    IN  [run EXCEPT !.loanStates = step2.loanStates,
                    !.totalInterest = @ + paidInterest,
                    !.nan = @ \/ monthlyPlan.nan,
                    !.schedule = Append(@, step2.plan),
                    !.month = @ + 1,
                    !.stopped = AllPaidOff(step2.loanStates)]

RECURSIVE SnowballLoop(_, _)
SnowballLoop(run, fuel) ==
    IF fuel = 0 \/ ~FixedContinue(run) THEN run
    ELSE IF fuel = 1 THEN SnowballMonth(run)
    ELSE SnowballLoop(SnowballLoop(run, fuel \div 2), fuel - (fuel \div 2))

calculateSnowballFixedStrategy(loanList, extra, lump) ==
    StrategyOf("snowball_fixed", SnowballLoop(FixedRunStart(loanList, extra, lump), LoopFuel), loanList)

----------------------------------------------------------------------------
(* calculateSnowballScrapesStrategy *)

\* loans.map(...) with the shared remainingLumpSum: the loan states of the
\* first k loans and the lump sum left after them.  A loan receives lump sum
\* only if no loan before it in ascending-balance order has an (input)
\* balance above 0.
RECURSIVE ScrapesLoanStates(_, _, _)
ScrapesLoanStates(loanList, lump, k) ==
    IF k = 0 THEN [states |-> <<>>, remainingLumpSum |-> lump]
    ELSE LET before == ScrapesLoanStates(loanList, lump, k - 1)
             loan == loanList[k]
             sortedLoans == ArraySort(loanList, "balance")
             loanIndex == FindIndex([i \in 1..Len(sortedLoans) |-> sortedLoans[i].id = loan.id])
             shouldReceiveLumpSum ==
                 \A i \in 1..(loanIndex - 1) : ~(sortedLoans[i].currentBalance > 0)
             receives == before.remainingLumpSum > 0 /\ shouldReceiveLumpSum
             lumpSumToApply == IF receives
                               THEN Min(before.remainingLumpSum, loan.currentBalance)
                               ELSE 0
             newBalance == IF receives
                           THEN Max(0, loan.currentBalance - lumpSumToApply)
                           ELSE loan.currentBalance
         IN  [states |-> Append(before.states,
                    [id |-> loan.id,
                     currentBalance |-> newBalance,
                     interestRate |-> loan.interestRate,
                     originalMonthlyPayment |-> loan.monthlyPayment,
                     currentMinimumPayment |-> loan.monthlyPayment,
                     termMonths |-> loan.termMonths,
                     isPaidOff |-> newBalance <= Tolerance,
                     paidOffMonth |-> 0,
                     previousBalance |-> newBalance,
                     previousInterest |-> 0]),
              remainingLumpSum |-> before.remainingLumpSum - lumpSumToApply]

Active(ls) == ~ls.isPaidOff /\ ls.currentBalance > Tolerance

\* Step 1 for one loan.
ScrapesPayment(ls, month) ==
    IF ~Active(ls) THEN [state |-> ls, entries |-> <<>>, interest |-> 0, freed |-> 0]
    ELSE LET monthlyInterest == MonthlyInterestOf(ls.currentBalance, ls.interestRate)
             uncapped == Min(ls.currentMinimumPayment - monthlyInterest, ls.currentBalance)
             principalPayment == IF uncapped < 0
                                 THEN Min(ls.currentBalance, MinimumPrincipal)
                                 ELSE uncapped
             newBalance == ls.currentBalance - principalPayment
             paid == newBalance <= Tolerance
             after == [ls EXCEPT !.currentBalance = IF paid THEN 0 ELSE newBalance,
                                 !.isPaidOff = paid,
                                 !.paidOffMonth = IF paid THEN month ELSE @]
         IN  [state |-> after,
              interest |-> monthlyInterest,
              freed |-> IF paid THEN ls.originalMonthlyPayment ELSE 0,
              entries |-> << [loanId |-> ls.id,
                              month |-> month,
                              currentBalance |-> after.currentBalance + principalPayment,
                              monthlyInterest |-> monthlyInterest,
                              minimumPayment |-> ls.originalMonthlyPayment,
                              principalPayment |-> principalPayment,
                              extraPayment |-> 0,
                              totalPayment |-> ls.originalMonthlyPayment,
                              remainingBalance |-> after.currentBalance,
                              isExtraPayment |-> FALSE,
                              isPaidOff |-> after.isPaidOff,
                              freedPayment |-> 0,
                              scrapeSaving |-> 0,
                              nan |-> FALSE] >>]

\* Step 2 once the target is chosen.
ApplyScrapesExtra(loanStates, plan, target, totalExtraPayment, month) ==
    LET extraPrincipal == Min(totalExtraPayment, target.currentBalance)
        newBalance == target.currentBalance - extraPrincipal
        paid == newBalance <= Tolerance
        after == [target EXCEPT !.currentBalance = IF paid THEN 0 ELSE newBalance,
                                !.isPaidOff = paid,
                                !.paidOffMonth = IF paid THEN month ELSE @]
        at == FindIndex([i \in 1..Len(loanStates) |-> loanStates[i].id = target.id])
        rec == FindIndex([i \in 1..Len(plan.payments) |-> plan.payments[i].loanId = target.id])
        payments == IF rec = 0 THEN plan.payments
                    ELSE [plan.payments EXCEPT
                            ![rec].extraPayment = extraPrincipal,
                            ![rec].principalPayment = @ + extraPrincipal,
                            ![rec].totalPayment = @ + extraPrincipal,
                            ![rec].remainingBalance = after.currentBalance,
                            ![rec].isExtraPayment = TRUE,
                            ![rec].isPaidOff = after.isPaidOff,
                            ![rec].freedPayment = IF after.isPaidOff
                                                  THEN target.originalMonthlyPayment ELSE 0]
    IN  [loanStates |-> [loanStates EXCEPT ![at] = after],
         freed |-> IF paid THEN target.originalMonthlyPayment ELSE 0,
         plan |-> [plan EXCEPT !.payments = payments,
                               !.totalPayment = @ + extraPrincipal,
                               !.totalPrincipal = @ + extraPrincipal]]

\* Mutant: the pool is overwritten with the month's freed payments.
AddFreedPayments_Overwrite(freedPaymentPool, newFreedPayments) ==
    newFreedPayments

\* freedPaymentPool += newFreedPayments
AddFreedPayments(freedPaymentPool, newFreedPayments) ==
    freedPaymentPool + newFreedPayments

ScrapesMonth(run) ==
    LET turns == Tuple([i \in 1..Len(run.loanStates) |-> ScrapesPayment(run.loanStates[i], run.month)])
        payments == ConcatAll([i \in 1..Len(turns) |-> turns[i].entries])
        afterStep1 == Tuple([i \in 1..Len(turns) |-> turns[i].state])
        paidInterest == SumSeq([i \in 1..Len(turns) |-> turns[i].interest])
        freedStep1 == SumSeq([i \in 1..Len(turns) |-> turns[i].freed])
        monthlyPlan ==
            [month |-> run.month,
             payments |-> payments,
             totalPayment |-> SumOf(payments, "minimumPayment"),
             totalInterest |-> SumOf(payments, "monthlyInterest"),
             totalPrincipal |-> SumOf(payments, "principalPayment"),
             remainingDebts |-> CountNotPaidOff(run.loanStates),
             extraPaymentPool |-> run.extraPaymentBase + run.freedPaymentPool,
             totalScrapeSavings |-> 0,
             totalFreedPayments |-> run.freedPaymentPool,
             activeLoanCount |-> CountNotPaidOff(run.loanStates),
             nan |-> FALSE]
        totalExtraPayment == run.extraPaymentBase + run.freedPaymentPool
        candidates == ArraySort(SelectSeq(afterStep1, Active), "scrapes")
        step2 == IF totalExtraPayment > 0 /\ candidates # <<>>
                 THEN ApplyScrapesExtra(afterStep1, monthlyPlan, candidates[1],
                                        totalExtraPayment, run.month)
                 ELSE [loanStates |-> afterStep1, plan |-> monthlyPlan, freed |-> 0]
        newFreedPayments == freedStep1 + step2.freed
    IN  [run EXCEPT !.loanStates = step2.loanStates,
                    !.totalInterest = @ + paidInterest,
                    !.freedPaymentPool = AddFreedPayments(@, newFreedPayments),
                    !.schedule = Append(@, [step2.plan EXCEPT
                                               !.totalFreedPayments = newFreedPayments,
                                               !.totalScrapeSavings = 0]),
                    !.month = @ + 1,
                    !.stopped = \A i \in 1..Len(step2.loanStates) : ~Active(step2.loanStates[i])]

\* Mutant: the loop runs while all loans are active (every for some).
ScrapesContinue_WhileAll(run) ==
    /\ ~run.stopped
    /\ \A i \in 1..Len(run.loanStates) : Active(run.loanStates[i])
    /\ run.month <= MaxMonths

ScrapesContinue(run) ==
    /\ ~run.stopped
    /\ \E i \in 1..Len(run.loanStates) : Active(run.loanStates[i])
    /\ run.month <= MaxMonths

RECURSIVE ScrapesLoop(_, _)
ScrapesLoop(run, fuel) ==
    IF fuel = 0 \/ ~ScrapesContinue(run) THEN run
    ELSE IF fuel = 1 THEN ScrapesMonth(run)
    ELSE ScrapesLoop(ScrapesLoop(run, fuel \div 2), fuel - (fuel \div 2))

\* Mutant: a loan the lump sum paid off frees nothing.
PaidOffPayment_Nothing(ls) == 0

PaidOffPayment(ls) == IF ls.isPaidOff THEN ls.originalMonthlyPayment ELSE 0

ScrapesRunStart(loanList, extra, lump) ==
    LET loanStates == ScrapesLoanStates(loanList, lump, Len(loanList)).states
    IN  [loanStates |-> loanStates,
         month |-> 1,
         totalInterest |-> 0,
         nan |-> FALSE,
         extraPaymentBase |-> extra,
         freedPaymentPool |-> SumSeq([i \in 1..Len(loanStates) |-> PaidOffPayment(loanStates[i])]),
         schedule |-> <<>>,
         stopped |-> FALSE]

calculateSnowballScrapesStrategy(loanList, extra, lump) ==
    StrategyOf("snowball_scrapes", ScrapesLoop(ScrapesRunStart(loanList, extra, lump), LoopFuel), loanList)

----------------------------------------------------------------------------
(* optimizeDebtPayoff: scoring and recommendation *)

\* x || 0 for a number that may be NaN.
OrZero(value, isNaN) == IF isNaN THEN 0 ELSE value

\* Mutant: the strategy is returned as the strategy function built it.
ScoreStrategy_KeepsPlaceholders(strategy, baseline) ==
    strategy

\* Mutant: interestSaved is the strategy's interest less the baseline's.
ScoreStrategy_SignFlipped(strategy, baseline) ==
    LET baselineTotalInterest == SumOf(baseline, "totalInterest")
        baselineMonths == Len(baseline)
    IN  [strategy EXCEPT
            !.interestSaved = IF strategy.nan THEN 0
                              ELSE strategy.totalInterest - baselineTotalInterest,
            !.monthsSaved = Max(0, baselineMonths - Len(strategy.monthlySchedule))]

ScoreStrategy(strategy, baseline) ==
    LET baselineTotalInterest == SumOf(baseline, "totalInterest")
        baselineMonths == Len(baseline)
    IN  [strategy EXCEPT
            !.interestSaved = IF strategy.nan THEN 0
                              ELSE baselineTotalInterest - strategy.totalInterest,
            !.monthsSaved = Max(0, baselineMonths - Len(strategy.monthlySchedule))]

\* Mutant: equal monthsSaved lets the later strategy win.
BetterOf_TieReplaces(best, current) ==
    LET currentSaved == OrZero(current.interestSaved, current.nan)
        bestSaved == OrZero(best.interestSaved, best.nan)
    IN  IF Abs(currentSaved - bestSaved) > InterestBand
        THEN IF currentSaved > bestSaved THEN current ELSE best
        ELSE IF current.monthsSaved >= best.monthsSaved THEN current ELSE best

\* Mutant: only monthsSaved is compared.
BetterOf_MonthsOnly(best, current) ==
    IF current.monthsSaved > best.monthsSaved THEN current ELSE best

\* The callback of scoredStrategies.reduce.
BetterOf(best, current) ==
    LET currentSaved == OrZero(current.interestSaved, current.nan)
        bestSaved == OrZero(best.interestSaved, best.nan)
    IN  IF Abs(currentSaved - bestSaved) > InterestBand
        THEN IF currentSaved > bestSaved THEN current ELSE best
        ELSE IF current.monthsSaved > best.monthsSaved THEN current ELSE best

\* reduce without an initial value: the first element starts as best.
RECURSIVE ReduceBest(_, _)
ReduceBest(scored, k) ==
    IF k = 1 THEN scored[1] ELSE BetterOf(ReduceBest(scored, k - 1), scored[k])

OptimizationResult(baseline, computed) ==
    LET scoredStrategies == Tuple([i \in 1..Len(computed) |-> ScoreStrategy(computed[i], baseline)])
    IN  [strategies |-> scoredStrategies,
         recommendedStrategy |-> ReduceBest(scoredStrategies, Len(scoredStrategies)),
         baselineSchedule |-> baseline]

----------------------------------------------------------------------------
(* State machine *)

None == <<>>

Init ==
    /\ loans \in LoanLists
    /\ extraPaymentBase \in ExtraChoices
    /\ lumpSum \in LumpChoices
    /\ pc = "start"
    /\ baselineSchedule = None
    /\ strategies = <<>>
    /\ result = None
    /\ amort = None
    /\ now = 0
    /\ returned = <<>>

CalculateBaseline ==
    /\ pc = "start"
    /\ baselineSchedule' = calculateBaselineSchedule(loans)
    /\ pc' = "baseline"
    /\ UNCHANGED <<loans, extraPaymentBase, lumpSum, strategies, result, amort, now, returned>>

CalculateAvalanche ==
    /\ pc = "baseline"
    /\ strategies' = <<calculateAvalancheFixedStrategy(loans, extraPaymentBase, lumpSum)>>
    /\ pc' = "avalanche"
    /\ UNCHANGED <<loans, extraPaymentBase, lumpSum, baselineSchedule, result, amort, now, returned>>

CalculateSnowball ==
    /\ pc = "avalanche"
    /\ strategies' = Append(strategies, calculateSnowballFixedStrategy(loans, extraPaymentBase, lumpSum))
    /\ pc' = "snowball"
    /\ UNCHANGED <<loans, extraPaymentBase, lumpSum, baselineSchedule, result, amort, now, returned>>

CalculateScrapes ==
    /\ pc = "snowball"
    /\ strategies' = Append(strategies, calculateSnowballScrapesStrategy(loans, extraPaymentBase, lumpSum))
    /\ pc' = "scrapes"
    /\ UNCHANGED <<loans, extraPaymentBase, lumpSum, baselineSchedule, result, amort, now, returned>>

\* The rest of optimizeDebtPayoff: score, recommend, return.
Recommend ==
    /\ pc = "scrapes"
    /\ result' = OptimizationResult(baselineSchedule, strategies)
    /\ pc' = "done"
    /\ UNCHANGED <<loans, extraPaymentBase, lumpSum, baselineSchedule, strategies, amort, now, returned>>

\* A caller asks for one loan's amortization schedule.
GenerateAmortization ==
    /\ pc = "start"
    /\ \E i \in 1..Len(loans), lump \in AmortLumpChoices :
          amort' = [loan |-> loans[i],
                    extraPayment |-> extraPaymentBase,
                    lumpSum |-> lump,
                    schedule |-> generateAmortizationSchedule(loans[i], extraPaymentBase, lump)]
    /\ pc' = "amortized"
    /\ UNCHANGED <<loans, extraPaymentBase, lumpSum, baselineSchedule, strategies, result, now, returned>>

Next ==
    \/ CalculateBaseline
    \/ CalculateAvalanche
    \/ CalculateSnowball
    \/ CalculateScrapes
    \/ Recommend
    \/ GenerateAmortization

Spec == Init /\ [][Next]_vars

----------------------------------------------------------------------------
(* Repeated calls and the dates of the result *)

\* new Date(): the instant the clock shows, no month added yet.
NewDate(instant) == [instant |-> instant, monthsAdded |-> 0]

\* addMonths of date-fns: the same instant of day, amount months later.
addMonths(date, amount) == [date EXCEPT !.monthsAdded = @ + amount]

\* The date fields of a schedule whose currentDate started as new Date() at
\* the instant start and had addMonths(currentDate, 1) applied every month.
ScheduleDates(schedule, start) ==
    Tuple([m \in 1..Len(schedule) |-> addMonths(NewDate(start), m - 1)])

\* payoffDate of a strategy and of each of its perDebtDetails; finish is
\* the instant the new Date() fallbacks read at the end of the function.
StrategyDates(loanList, schedule, start, finish) ==
    LET dates == ScheduleDates(schedule, start)
        PayoffDateOf(loan) ==
            LET months == {m \in 1..Len(schedule) :
                              \E k \in 1..Len(schedule[m].payments) :
                                  /\ schedule[m].payments[k].loanId = loan.id
                                  /\ schedule[m].payments[k].isPaidOff}
            IN  IF months # {}
                THEN dates[CHOOSE m \in months : \A other \in months : m <= other]
                ELSE NewDate(finish)
    IN  [monthlySchedule |-> dates,
         payoffDate |-> IF Len(schedule) > 0 THEN dates[Len(schedule)] ELSE NewDate(finish),
         perDebtDetails |-> Tuple([j \in 1..Len(loanList) |-> PayoffDateOf(loanList[j])])]

\* The readings of count successive new Date() calls: the clock never goes
\* back, and it may or may not have moved between two readings.
ClockReadings(count) ==
    {reading \in [1..count -> now..MaxClock] :
        \A k \in 1..(count - 1) : reading[k] <= reading[k + 1]}

\* One whole call of optimizeDebtPayoff with the caller's arguments.  The
\* readings are, in order: the start of the baseline, then the start and the
\* end of each of the three strategy functions.
Optimize ==
    /\ pc \in {"start", "done"}
    /\ Len(returned) < MaxCalls
    /\ baselineSchedule' = calculateBaselineSchedule(loans)
    /\ strategies' = <<calculateAvalancheFixedStrategy(loans, extraPaymentBase, lumpSum),
                       calculateSnowballFixedStrategy(loans, extraPaymentBase, lumpSum),
                       calculateSnowballScrapesStrategy(loans, extraPaymentBase, lumpSum)>>
    /\ result' = OptimizationResult(baselineSchedule', strategies')
    /\ pc' = "done"
    /\ \E reading \in ClockReadings(7) :
          /\ now' = reading[7]
          /\ returned' = Append(returned,
                [value |-> result',
                 dates |-> [baselineSchedule |-> ScheduleDates(baselineSchedule', reading[1]),
                            strategies |->
                                Tuple([i \in 1..3 |->
                                    StrategyDates(loans, strategies'[i].monthlySchedule,
                                                  reading[2 * i], reading[2 * i + 1])])]])
    /\ UNCHANGED <<loans, extraPaymentBase, lumpSum, amort>>

\* A caller that optimizes the same short loan list repeatedly.
InitCalls ==
    /\ Init
    /\ Len(loans) <= MaxCallLoans

NextCalls == Optimize

SpecCalls == InitCalls /\ [][NextCalls]_vars

----------------------------------------------------------------------------
(* The recommendation as a function of the three scores *)

\* interestSaved and monthsSaved figures a scored strategy may carry; they
\* include those of the loans 5000 at 8% over 120 months and 20000 at 18%
\* over 60 months with extra payment 200 and lump sum 5000 (8280.43 and 81,
\* 7453.20 and 86, 7205.91 and 87).
SavedChoices == {-Cents(1500), 0, Cents(7205) + 91, Cents(7453) + 20, Cents(8280) + 43}

MonthsSavedChoices == {81, 86, 87}

\* A scored strategy of the given type, with NaN interest or a number.
ScoredChoices(type) ==
    {[type |-> type, nan |-> FALSE, interestSaved |-> saved, monthsSaved |-> months] :
        saved \in SavedChoices, months \in MonthsSavedChoices}
    \cup {[type |-> type, nan |-> TRUE, interestSaved |-> 0, monthsSaved |-> months] :
        months \in MonthsSavedChoices}

\* optimizeDebtPayoff at the point where the three strategies are scored.
InitScored ==
    /\ loans = <<>>
    /\ extraPaymentBase = 0
    /\ lumpSum = 0
    /\ pc = "scored"
    /\ baselineSchedule = <<>>
    /\ strategies \in ScoredChoices("avalanche_fixed")
                        \X ScoredChoices("snowball_fixed")
                        \X ScoredChoices("snowball_scrapes")
    /\ result = None
    /\ amort = None
    /\ now = 0
    /\ returned = <<>>

\* scoredStrategies.reduce and the return.
RecommendScored ==
    /\ pc = "scored"
    /\ result' = [strategies |-> strategies,
                  recommendedStrategy |-> ReduceBest(strategies, Len(strategies)),
                  baselineSchedule |-> baselineSchedule]
    /\ pc' = "done"
    /\ UNCHANGED <<loans, extraPaymentBase, lumpSum, baselineSchedule, strategies, amort,
                   now, returned>>

NextScored == RecommendScored

SpecRecommend == InitScored /\ [][NextScored]_vars

----------------------------------------------------------------------------
(* Properties *)

Done == pc = "done"

Avalanche == result.strategies[1]
SnowballFixed == result.strategies[2]
SnowballScrapes == result.strategies[3]

BaselineTotalInterest == SumOf(baselineSchedule, "totalInterest")

\* The payment exceeds the first month's interest (balance x rate / 100 / 12).
Amortizing(loan) ==
    /\ loan.currentBalance > 0
    /\ loan.monthlyPayment * MonthsPerYearPercent > loan.currentBalance * loan.interestRate

AllAmortizing == \A i \in 1..Len(loans) : Amortizing(loans[i])

\* Interest is rounded down to the cent each month, so two totals are only
\* told apart when they differ by more than one currency unit.
RoundingSlack == Cents(1)

\* C1: whatever the loans, extra payment and lump sum, the baseline's total
\* interest is at least each strategy's total interest: no returned
\* interestSaved is negative.
C1_InterestSavedNeverNegative ==
    Done => \A i \in 1..Len(result.strategies) :
                ~result.strategies[i].nan => result.strategies[i].interestSaved >= 0

\* C2: the baseline schedule has at least as many months as the monthly
\* schedule of each of the three strategies on the same loans.
C2_BaselineMonthsAtLeastStrategyMonths ==
    Done => \A i \in 1..Len(result.strategies) :
                Len(result.baselineSchedule) >= Len(result.strategies[i].monthlySchedule)

C2_Witness ==
    /\ Done
    /\ extraPaymentBase > 0
    /\ \A i \in 1..Len(result.strategies) :
          Len(result.strategies[i].monthlySchedule) < Len(result.baselineSchedule)
    /\ Len(SnowballScrapes.monthlySchedule) < Len(Avalanche.monthlySchedule)

\* In one schedule: a loan has one entry a month at most, and after the
\* entry that reports it paid off it has no entry in any later month.
PaidOffIsFinal(schedule) ==
    \A m \in 1..Len(schedule) : \A k \in 1..Len(schedule[m].payments) :
        LET entry == schedule[m].payments[k]
        IN  /\ \A j \in 1..Len(schedule[m].payments) :
                  j # k => schedule[m].payments[j].loanId # entry.loanId
            /\ entry.isPaidOff =>
                  \A later \in (m + 1)..Len(schedule) :
                      \A j \in 1..Len(schedule[later].payments) :
                          schedule[later].payments[j].loanId # entry.loanId

\* C3: no double payoff.  In every strategy run a loan that was reported paid
\* off gets no payment entry (so no minimum and no extra principal) in any
\* later month, hence at most one entry with isPaidOff = TRUE.
C3_NoDoublePayoff ==
    Done => \A i \in 1..Len(result.strategies) :
                PaidOffIsFinal(result.strategies[i].monthlySchedule)

\* Some loan is paid off before the last month of every strategy's run.
PaidOffEarly(schedule) ==
    \E m \in 1..(Len(schedule) - 1) : \E k \in 1..Len(schedule[m].payments) :
        schedule[m].payments[k].isPaidOff

C3_Witness ==
    /\ Done
    /\ \A i \in 1..Len(result.strategies) : PaidOffEarly(result.strategies[i].monthlySchedule)

NonNegativePayments == \A i \in 1..Len(loans) : loans[i].monthlyPayment >= 0

\* C4: with non-negative monthly payments, the surplus of the snowball+scrapes
\* run (extraPaymentBase + freedPaymentPool, recorded as extraPaymentPool)
\* never decreases from one month to the next: it grows by exactly the
\* payments freed in the month, which are never negative, and starts at
\* extraPaymentBase or above.
C4_FreedPaymentPoolMonotone ==
    Done /\ NonNegativePayments =>
        LET schedule == SnowballScrapes.monthlySchedule
        IN  /\ schedule # <<>> => schedule[1].extraPaymentPool >= extraPaymentBase
            /\ \A m \in 1..Len(schedule) : schedule[m].totalFreedPayments >= 0
            /\ \A m \in 1..(Len(schedule) - 1) :
                  /\ schedule[m + 1].extraPaymentPool >= schedule[m].extraPaymentPool
                  /\ schedule[m + 1].extraPaymentPool
                       = schedule[m].extraPaymentPool + schedule[m].totalFreedPayments

\* A loan is paid off before the end of the run and the next month's surplus
\* is larger by its monthly payment.
C4_Witness ==
    /\ Done
    /\ NonNegativePayments
    /\ LET schedule == SnowballScrapes.monthlySchedule
       IN  \E m \in 1..(Len(schedule) - 1) :
              /\ schedule[m].totalFreedPayments > 0
              /\ schedule[m + 1].extraPaymentPool > schedule[m].extraPaymentPool

\* The fold of C5 over the returned strategies, read off the claim: "differs
\* by more than 1000" needs two numbers, anything else is "at most 1000".
DiffersByMoreThanBand(a, b) ==
    ~a.nan /\ ~b.nan /\ Abs(a.interestSaved - b.interestSaved) > InterestBand

Replaces(current, best) ==
    IF DiffersByMoreThanBand(current, best)
    THEN current.interestSaved > best.interestSaved
    ELSE current.monthsSaved > best.monthsSaved

ExpectedRecommendation ==
    LET afterSecond == IF Replaces(SnowballFixed, Avalanche) THEN SnowballFixed ELSE Avalanche
    IN  IF Replaces(SnowballScrapes, afterSecond) THEN SnowballScrapes ELSE afterSecond

\* C5: recommendedStrategy is the result of folding over avalanche-fixed,
\* snowball-fixed, snowball+scrapes in that order, starting from the first; a
\* later strategy replaces the best so far when its interestSaved differs by
\* more than 1000 and is strictly greater, or differs by at most 1000 and its
\* monthsSaved is strictly greater.  It is one of the three returned.
C5_RecommendationFold ==
    Done => /\ result.recommendedStrategy = ExpectedRecommendation
            /\ \E i \in 1..Len(result.strategies) :
                  result.recommendedStrategy = result.strategies[i]
            /\ Avalanche.type = "avalanche_fixed"
            /\ SnowballFixed.type = "snowball_fixed"
            /\ SnowballScrapes.type = "snowball_scrapes"

\* Snowball-fixed took over from the avalanche on interest, and scrapes then
\* took over on months inside the 1000 band.
C5_Witness ==
    /\ Done
    /\ DiffersByMoreThanBand(SnowballFixed, Avalanche)
    /\ SnowballFixed.interestSaved > Avalanche.interestSaved
    /\ ~DiffersByMoreThanBand(SnowballScrapes, SnowballFixed)
    /\ SnowballScrapes.monthsSaved > SnowballFixed.monthsSaved
    /\ result.recommendedStrategy.type = "snowball_scrapes"

\* C6: each returned strategy, and the recommended one, carries interestSaved
\* = baseline total interest - its totalInterest and monthsSaved = max(0,
\* baseline months - its months); nothing else of the strategy is changed,
\* and monthsSaved is never negative.
BaselineRelative(scored, computed) ==
    /\ scored.nan = computed.nan
    /\ ~scored.nan => scored.interestSaved = BaselineTotalInterest - computed.totalInterest
    /\ scored.monthsSaved = Max(0, Len(baselineSchedule) - Len(computed.monthlySchedule))
    /\ scored.monthsSaved >= 0
    /\ scored = [computed EXCEPT !.interestSaved = scored.interestSaved,
                                 !.monthsSaved = scored.monthsSaved]

C6_BaselineRelativeFigures ==
    Done => /\ Len(result.strategies) = Len(strategies)
            /\ \A i \in 1..Len(strategies) :
                  BaselineRelative(result.strategies[i], strategies[i])
            /\ \E i \in 1..Len(strategies) :
                  /\ result.recommendedStrategy.type = strategies[i].type
                  /\ BaselineRelative(result.recommendedStrategy, strategies[i])

\* Every placeholder was replaced by a figure other than 0.
C6_Witness ==
    /\ Done
    /\ \A i \in 1..Len(strategies) :
          /\ strategies[i].interestSaved = 0 /\ strategies[i].monthsSaved = 0
          /\ result.strategies[i].interestSaved > 0
          /\ result.strategies[i].monthsSaved > 0

\* C7: with no lump sum the avalanche-fixed strategy pays no more interest
\* than snowball-fixed.  Stated for loans whose payment exceeds their first
\* month's interest and up to the rounding slack, so that a violation is a
\* difference of the two allocations themselves.
C7_AvalancheInterestOptimal ==
    Done /\ lumpSum = 0 /\ AllAmortizing =>
        Avalanche.totalInterest <= SnowballFixed.totalInterest + RoundingSlack

\* C8: with no lump sum the snowball+scrapes schedule has at most as many
\* months as the snowball-fixed schedule.  Stated for loans whose payment
\* exceeds their first month's interest.
C8_ScrapesNeverLonger ==
    Done /\ lumpSum = 0 /\ AllAmortizing =>
        /\ Len(SnowballScrapes.monthlySchedule) <= Len(SnowballFixed.monthlySchedule)
        /\ SnowballScrapes.monthsSaved >= SnowballFixed.monthsSaved

\* Months are numbered 1..n and n is at most limit.
Numbered(schedule, limit) ==
    /\ Len(schedule) <= limit
    /\ \A m \in 1..Len(schedule) : schedule[m].month = m

\* C9: the baseline and the three strategies return at most 600 monthly plans
\* numbered 1..n, and generateAmortizationSchedule returns at most
\* termMonths x 3 items, whatever the payments (zero, negative, below the
\* interest).
C9_BoundedTermination ==
    /\ pc # "start" /\ pc # "amortized" => Numbered(baselineSchedule, MaxMonths)
    /\ \A i \in 1..Len(strategies) : Numbered(strategies[i].monthlySchedule, MaxMonths)
    /\ pc = "amortized" => Numbered(amort.schedule, amort.loan.termMonths * 3)

\* The ceiling is what ended the baseline and a strategy.
C9_Witness ==
    /\ Done
    /\ Len(baselineSchedule) = MaxMonths
    /\ Len(strategies[1].monthlySchedule) = MaxMonths
    /\ Len(strategies[3].monthlySchedule) < MaxMonths
    /\ \E i \in 1..Len(loans) : loans[i].monthlyPayment <= 0

LastItem == amort.schedule[Len(amort.schedule)]

PlainAmortization ==
    pc = "amortized" /\ amort.extraPayment = 0 /\ amort.lumpSum = 0

\* C10 as stated: a loan whose payment exceeds its first month's interest
\* gets a schedule of at most termMonths x 3 items whose last item has
\* remainingBalance <= 0.01.
C10_PayoffTermination ==
    PlainAmortization /\ Amortizing(amort.loan) =>
        /\ amort.schedule # <<>>
        /\ Len(amort.schedule) <= amort.loan.termMonths * 3
        /\ LastItem.remainingBalance <= Tolerance

\* C10 amended: such a loan gets a schedule of 1 to termMonths x 3 items; the
\* last item has remainingBalance <= 0.01 whenever the schedule is shorter
\* than termMonths x 3, and a schedule that stops with a balance left has
\* exactly termMonths x 3 items.
C10_PayoffOrCeiling ==
    PlainAmortization /\ Amortizing(amort.loan) /\ amort.loan.currentBalance > Tolerance =>
        /\ Len(amort.schedule) >= 1
        /\ Len(amort.schedule) <= amort.loan.termMonths * 3
        /\ Len(amort.schedule) < amort.loan.termMonths * 3 =>
              LastItem.remainingBalance <= Tolerance
        /\ LastItem.remainingBalance > Tolerance =>
              Len(amort.schedule) = amort.loan.termMonths * 3

C10_Witness ==
    /\ PlainAmortization
    /\ Amortizing(amort.loan)
    /\ Len(amort.schedule) > 1
    /\ Len(amort.schedule) < amort.loan.termMonths * 3
    /\ LastItem.remainingBalance <= Tolerance

\* remainingBalance of the items of the amortization schedule, in order.
AmortBalances == [k \in 1..Len(amort.schedule) |-> amort.schedule[k].remainingBalance]

NonIncreasing(values) == \A k \in 1..(Len(values) - 1) : values[k + 1] <= values[k]

\* C11 as stated: for any loan, extra payment and lump sum, remainingBalance
\* never increases from one item to the next and is never negative.
C11_BalanceMonotone ==
    pc = "amortized" =>
        /\ \A k \in 1..Len(AmortBalances) : AmortBalances[k] >= 0
        /\ NonIncreasing(AmortBalances)

\* The payment with the extra covers the first month's interest on the
\* starting balance (currentBalance - lumpSum).
CoversInterest ==
    amort.loan.monthlyPayment + amort.extraPayment
        >= MonthlyInterestOf(amort.loan.currentBalance - amort.lumpSum, amort.loan.interestRate)

\* C11 amended: remainingBalance is never negative; it never increases from
\* one item to the next when monthlyPayment + extraPayment covers the first
\* month's interest, and it grows with every item when it does not.
C11_BalanceMonotoneWhenCovered ==
    pc = "amortized" =>
        /\ \A k \in 1..Len(AmortBalances) : AmortBalances[k] >= 0
        /\ CoversInterest => NonIncreasing(AmortBalances)
        /\ ~CoversInterest =>
              \A k \in 1..(Len(AmortBalances) - 1) : AmortBalances[k + 1] > AmortBalances[k]

\* A schedule of several items, with an extra payment and a lump sum, whose
\* balance goes down to 0.
C11_Witness ==
    /\ pc = "amortized"
    /\ amort.extraPayment > 0
    /\ amort.lumpSum > 0
    /\ CoversInterest
    /\ Len(AmortBalances) > 2
    /\ AmortBalances[1] > AmortBalances[2]
    /\ AmortBalances[Len(AmortBalances)] = 0

StartingBalance == amort.loan.currentBalance - amort.lumpSum

\* C12 as stated: at least one item whenever the starting balance
\* (currentBalance - lumpSum) is above 0, no item whenever it is 0 or less.
C12_NonEmptyIffPositive ==
    pc = "amortized" =>
        /\ StartingBalance > 0 => Len(amort.schedule) >= 1
        /\ StartingBalance <= 0 => amort.schedule = <<>>

\* C12 amended: the threshold is the 0.01 tolerance.  At least one item
\* whenever the starting balance is above 0.01 (and termMonths >= 1), no item
\* whenever it is 0.01 or less.
C12_NonEmptyIffAboveTolerance ==
    pc = "amortized" =>
        /\ StartingBalance > Tolerance /\ amort.loan.termMonths >= 1 =>
              Len(amort.schedule) >= 1
        /\ StartingBalance <= Tolerance => amort.schedule = <<>>

\* A lump sum below the balance leaves a balance to amortize.
C12_Witness ==
    /\ pc = "amortized"
    /\ amort.lumpSum > 0
    /\ StartingBalance > Tolerance
    /\ Len(amort.schedule) >= 1

\* The months of a schedule in which the loan has an entry with isPaidOff.
PaidOffMonths(schedule, loanId) ==
    {m \in 1..Len(schedule) :
        \E k \in 1..Len(schedule[m].payments) :
            /\ schedule[m].payments[k].loanId = loanId
            /\ schedule[m].payments[k].isPaidOff}

FirstOf(months) == CHOOSE m \in months : \A other \in months : m <= other

\* What payoffMonth is when the loan has no paid-off entry: the strategy
\* schedule's length, or the length of the loan's own amortization schedule
\* with no extra payment and no lump sum.
FallbackMonth(kind, strategy, loan) ==
    IF kind = "schedule"
    THEN Len(strategy.monthlySchedule)
    ELSE Len(generateAmortizationSchedule(loan, 0, 0))

\* payoffMonth of every loan in every strategy: the first month with a
\* paid-off entry, else the fallback of the given kind.
PayoffMonthsAre(kind) ==
    \A i \in 1..Len(result.strategies) :
        LET strategy == result.strategies[i]
        IN  /\ Len(strategy.perDebtDetails) = Len(loans)
            /\ \A j \in 1..Len(loans) :
                  LET months == PaidOffMonths(strategy.monthlySchedule, loans[j].id)
                      detail == strategy.perDebtDetails[j]
                  IN  /\ detail.loanId = loans[j].id
                      /\ detail.payoffMonth =
                            IF months # {} THEN FirstOf(months)
                            ELSE FallbackMonth(kind, strategy, loans[j])

\* C13 as stated: payoffMonth is the 1-based index of the first month in
\* which the loan's entry has isPaidOff, and the strategy schedule's length
\* when there is no such entry.
C13_PayoffMonthOrScheduleLength == Done => PayoffMonthsAre("schedule")

\* C13 amended: when there is no such entry payoffMonth is the length of the
\* loan's own amortization schedule with no extra payment and no lump sum
\* (so monthsSaved is 0).
C13_PayoffMonthOrOwnAmortization ==
    Done => /\ PayoffMonthsAre("amortization")
            /\ \A i \in 1..Len(result.strategies) : \A j \in 1..Len(loans) :
                  PaidOffMonths(result.strategies[i].monthlySchedule, loans[j].id) = {}
                      => result.strategies[i].perDebtDetails[j].monthsSaved = 0

\* In the avalanche one loan is paid off before the end and another is never
\* reported paid off; the fallback differs from the schedule's length.
C13_Witness ==
    /\ Done
    /\ \E j, k \in 1..Len(loans) :
          LET paid == PaidOffMonths(Avalanche.monthlySchedule, loans[j].id)
          IN  /\ paid # {}
              /\ Avalanche.perDebtDetails[j].payoffMonth < Len(Avalanche.monthlySchedule)
              /\ PaidOffMonths(Avalanche.monthlySchedule, loans[k].id) = {}
              /\ Avalanche.perDebtDetails[k].payoffMonth # Len(Avalanche.monthlySchedule)

\* What the baseline records for one loan, month by month: the interest,
\* principal, remaining balance and paid-off flag of its entry, or the empty
\* tuple for a month without an entry of the loan.
BaselineTrack(schedule, loanId) ==
    [m \in 1..MaxMonths |->
        IF m <= Len(schedule)
              /\ \E k \in 1..Len(schedule[m].payments) : schedule[m].payments[k].loanId = loanId
        THEN LET k == CHOOSE k \in 1..Len(schedule[m].payments) :
                          schedule[m].payments[k].loanId = loanId
                 entry == schedule[m].payments[k]
             IN  <<entry.month, entry.monthlyInterest, entry.principalPayment,
                   entry.remainingBalance, entry.isPaidOff>>
        ELSE <<>>]

\* C14: in the baseline a loan's entries are those it has when it is the
\* only loan of the list, so they are the same in any two lists that contain
\* it, and so is its payoff month.
C14_BaselineIndependent ==
    pc = "baseline" =>
        \A j \in 1..Len(loans) :
            BaselineTrack(baselineSchedule, loans[j].id)
                = BaselineTrack(calculateBaselineSchedule(<<loans[j]>>), loans[j].id)

\* Two different loans, one paid off while the other still has entries in
\* later months.
C14_Witness ==
    /\ pc = "baseline"
    /\ Len(loans) = 2
    /\ \E m \in 1..(Len(baselineSchedule) - 1) :
          /\ \E k \in 1..Len(baselineSchedule[m].payments) :
                /\ baselineSchedule[m].payments[k].loanId = 1
                /\ baselineSchedule[m].payments[k].isPaidOff
          /\ \E k \in 1..Len(baselineSchedule[m + 1].payments) :
                baselineSchedule[m + 1].payments[k].loanId = 2

\* C16: for an empty loan list the call completes, the baseline and every
\* strategy schedule are empty, no figure is NaN, and every strategy has
\* interestSaved = 0 and monthsSaved = 0.
C16_EmptyLoanList ==
    (loans = <<>> /\ pc \notin {"start", "amortized"}) =>
        /\ baselineSchedule = <<>>
        /\ \A i \in 1..Len(strategies) :
              /\ strategies[i].monthlySchedule = <<>>
              /\ strategies[i].perDebtDetails = <<>>
              /\ ~strategies[i].nan
        /\ Done =>
              /\ Len(result.strategies) = 3
              /\ result.baselineSchedule = <<>>
              /\ \A i \in 1..3 :
                    /\ result.strategies[i].monthlySchedule = <<>>
                    /\ result.strategies[i].interestSaved = 0
                    /\ result.strategies[i].monthsSaved = 0
                    /\ ~result.strategies[i].nan

\* The empty list optimized with an extra payment and a lump sum.
C16_Witness ==
    /\ Done
    /\ loans = <<>>
    /\ extraPaymentBase > 0
    /\ lumpSum > 0
    /\ Len(result.strategies) = 3
    /\ result.strategies[3].monthlySchedule = <<>>

\* The loan record with the given id.
LoanOf(loanId) == loans[CHOOSE j \in 1..Len(loans) : loans[j].id = loanId]

\* The balance a payment entry's loan had after Phase 1 of its month.
AfterPhase1(entry) == entry.currentBalance - (entry.principalPayment - entry.extraPayment)

\* a is ahead of b in the named order of Phase 2.
Ahead(order, a, b) ==
    CASE order = "smallest balance, then higher rate" ->
            \/ AfterPhase1(a) < AfterPhase1(b)
            \/ /\ AfterPhase1(a) = AfterPhase1(b)
               /\ LoanOf(a.loanId).interestRate >= LoanOf(b.loanId).interestRate
      [] order = "highest rate, then larger balance" ->
            \/ LoanOf(a.loanId).interestRate > LoanOf(b.loanId).interestRate
            \/ /\ LoanOf(a.loanId).interestRate = LoanOf(b.loanId).interestRate
               /\ AfterPhase1(a) >= AfterPhase1(b)

\* In every month the entry marked isExtraPayment is ahead of every other
\* entry whose loan Phase 1 left unpaid, and some entry is marked when Phase 1
\* left a loan unpaid.
ExtraGoesTo(order, schedule) ==
    \A m \in 1..Len(schedule) :
        LET entries == schedule[m].payments
            unpaid == {k \in 1..Len(entries) :
                          entries[k].isExtraPayment \/ ~entries[k].isPaidOff}
        IN  /\ unpaid # {} => \E k \in unpaid : entries[k].isExtraPayment
            /\ \A k \in unpaid, other \in unpaid :
                  entries[k].isExtraPayment /\ other # k
                      => Ahead(order, entries[k], entries[other])

\* C17: with an extra payment, snowball-fixed gives it each month to the
\* unpaid loan of smallest balance after Phase 1, the higher rate winning
\* among equal balances.
C17_SnowballTarget ==
    (Done /\ extraPaymentBase > 0 /\ ~SnowballFixed.nan) =>
        ExtraGoesTo("smallest balance, then higher rate", SnowballFixed.monthlySchedule)

\* The entries of month m that received the extra payment.
Targets(schedule, m) ==
    {k \in 1..Len(schedule[m].payments) : schedule[m].payments[k].isExtraPayment}

\* The loan has an entry with isPaidOff in month m of the schedule.
PaidOffIn(schedule, m, loanId) ==
    \E k \in 1..Len(schedule[m].payments) :
        /\ schedule[m].payments[k].loanId = loanId
        /\ schedule[m].payments[k].isPaidOff

\* From one month to the next the extra payment moves to a loan of another
\* rate only when the loan it was on is paid off, and then to a lower rate.
StaysUntilPaidOff(schedule) ==
    \A m \in 1..(Len(schedule) - 1) :
        \A k \in Targets(schedule, m), next \in Targets(schedule, m + 1) :
            LET from == schedule[m].payments[k].loanId
                to == schedule[m + 1].payments[next].loanId
            IN  LoanOf(from).interestRate # LoanOf(to).interestRate =>
                    /\ LoanOf(to).interestRate < LoanOf(from).interestRate
                    /\ PaidOffIn(schedule, m, from) \/ PaidOffIn(schedule, m + 1, from)

\* C18: with an extra payment, avalanche-fixed gives it each month to the
\* unpaid loan of highest rate after Phase 1, the larger balance winning
\* among equal rates; it leaves that rate only once the loan is paid off.
C18_AvalancheTarget ==
    (Done /\ extraPaymentBase > 0 /\ ~Avalanche.nan) =>
        /\ ExtraGoesTo("highest rate, then larger balance", Avalanche.monthlySchedule)
        /\ StaysUntilPaidOff(Avalanche.monthlySchedule)

\* The extra payment is on the higher-rate loan although its balance is the
\* larger one, and moves to the other loan after the payoff.
C18_Witness ==
    /\ Done
    /\ extraPaymentBase > 0
    /\ ~Avalanche.nan
    /\ Len(loans) = 2
    /\ LET schedule == Avalanche.monthlySchedule
       IN  \E m \in 1..(Len(schedule) - 1) :
              \E k \in Targets(schedule, m), next \in Targets(schedule, m + 1) :
                  LET from == schedule[m].payments[k]
                      to == schedule[m + 1].payments[next]
                  IN  /\ LoanOf(from.loanId).interestRate > LoanOf(to.loanId).interestRate
                      /\ from.isPaidOff
                      /\ \E other \in 1..Len(schedule[1].payments) :
                            /\ schedule[1].payments[other].loanId = to.loanId
                            /\ ~schedule[1].payments[other].isExtraPayment
                            /\ AfterPhase1(schedule[1].payments[other])
                                  < LoanOf(from.loanId).currentBalance

\* The loan states a run starts from and the schedule it produced.
RunStart(kind) ==
    CASE kind = "baseline" -> Tuple([i \in 1..Len(loans) |-> BaselineLoanState(loans[i])])
      [] kind = "avalanche_fixed" -> FixedRunStart(loans, extraPaymentBase, lumpSum).loanStates
      [] kind = "snowball_fixed" -> FixedRunStart(loans, extraPaymentBase, lumpSum).loanStates
      [] kind = "snowball_scrapes" -> ScrapesRunStart(loans, extraPaymentBase, lumpSum).loanStates

RunSchedule(kind) ==
    CASE kind = "baseline" -> result.baselineSchedule
      [] kind = "avalanche_fixed" -> Avalanche.monthlySchedule
      [] kind = "snowball_fixed" -> SnowballFixed.monthlySchedule
      [] kind = "snowball_scrapes" -> SnowballScrapes.monthlySchedule

Runs == {"baseline", "avalanche_fixed", "snowball_fixed", "snowball_scrapes"}

\* The balances of the run are NaN (proportional lump sum over a total of 0).
RunIsNaN(kind) ==
    /\ kind \in {"avalanche_fixed", "snowball_fixed"}
    /\ \E j \in 1..Len(loans) : RunStart(kind)[j].nan

\* The loan's entries in the schedule, in month order.
EntriesOf(schedule, loanId) ==
    LET IsOf(entry) == entry.loanId = loanId
    IN  ConcatAll([m \in 1..Len(schedule) |-> SelectSeq(schedule[m].payments, IsOf)])

\* The invariant of one loan state over a run: the balance it starts with
\* and the balance each of its entries leaves.
LoanStateInvariant(start, entries) ==
    /\ start.currentBalance >= 0
    /\ (start.currentBalance <= Tolerance /\ start.isPaidOff) => start.currentBalance = 0
    /\ start.isPaidOff => entries = <<>>
    /\ \A k \in 1..Len(entries) :
          LET before == IF k = 1 THEN start.currentBalance
                        ELSE entries[k - 1].remainingBalance
          IN  /\ entries[k].remainingBalance <= before
              /\ entries[k].remainingBalance >= 0
              /\ entries[k].remainingBalance <= Tolerance =>
                    /\ entries[k].remainingBalance = 0
                    /\ entries[k].isPaidOff
              /\ entries[k].isPaidOff => k = Len(entries)

\* C19: in the baseline and the three strategy runs a loan's balance never
\* increases, is never negative, and once within the tolerance is exactly 0
\* with isPaidOff set for the rest of the run.
C19_LoanStateInvariant ==
    Done =>
        \A kind \in Runs : \A j \in 1..Len(loans) :
            ~RunIsNaN(kind) =>
                LoanStateInvariant(RunStart(kind)[j],
                                   EntriesOf(RunSchedule(kind), loans[j].id))

\* What the loan at place p of the ascending-balance order receives when the
\* lump sum is spent down that order: what the smaller loans left, up to
\* its balance.
LumpShare(sorted, p) ==
    LET spent == SumSeq([i \in 1..(p - 1) |-> sorted[i].currentBalance])
    IN  Min(Max(0, lumpSum - spent), sorted[p].currentBalance)

\* C20: snowball+scrapes starts every loan at its balance less its share of
\* the lump sum spent in ascending-balance order, and the starting balances
\* are reduced by min(lumpSum, total balance) in all.
C20_ScrapesLumpAllocation ==
    pc \in {"scrapes", "done"} =>
        LET sorted == ArraySort(loans, "balance")
            start == ScrapesRunStart(loans, extraPaymentBase, lumpSum).loanStates
        IN  /\ \A p \in 1..Len(sorted) : \A j \in 1..Len(start) :
                  start[j].id = sorted[p].id =>
                      start[j].currentBalance = sorted[p].currentBalance - LumpShare(sorted, p)
            /\ TotalBalance(loans) - TotalBalance(start) = Min(lumpSum, TotalBalance(loans))

\* C15: two calls with the same arguments return the same value, date
\* fields included, and the loan records are those the caller passed.
C15_Idempotent ==
    Len(returned) = MaxCalls => returned[1] = returned[2]

\* The month a loan is paid off in a run: 0 when it starts paid off, the
\* month of its isPaidOff entry, or a month past every schedule when never.
PayoffMonthIn(kind, j) ==
    LET months == PaidOffMonths(RunSchedule(kind), loans[j].id)
    IN  IF RunStart(kind)[j].isPaidOff THEN 0
        ELSE IF months = {} THEN MaxMonths + 1
        ELSE FirstOf(months)

\* extraPaymentBase plus the original minimum payments of the loans paid
\* off before month m of the snowball+scrapes run, each once.
SurplusDue(m) ==
    extraPaymentBase
        + SumSeq([j \in 1..Len(loans) |->
              IF PayoffMonthIn("snowball_scrapes", j) < m THEN loans[j].monthlyPayment ELSE 0])

\* Every month of the schedule offers surplus(m) and the entry that receives
\* extra receives min(surplus(m), its balance after Phase 1).
SurplusIs(schedule, fixed) ==
    \A m \in 1..Len(schedule) :
        LET surplus == IF fixed THEN extraPaymentBase ELSE SurplusDue(m)
        IN  /\ schedule[m].extraPaymentPool = surplus
            /\ \A k \in Targets(schedule, m) :
                  schedule[m].payments[k].extraPayment
                      = Min(surplus, AfterPhase1(schedule[m].payments[k]))

\* C21: the surplus of month m in snowball+scrapes is extraPaymentBase plus
\* the minimum payments of the loans paid off before month m (a payoff in
\* month m counts from month m + 1); in the two fixed strategies it is
\* extraPaymentBase in every month.
C21_SurplusPool ==
    Done =>
        /\ SurplusIs(SnowballScrapes.monthlySchedule, FALSE)
        /\ ~Avalanche.nan => SurplusIs(Avalanche.monthlySchedule, TRUE)
        /\ ~SnowballFixed.nan => SurplusIs(SnowballFixed.monthlySchedule, TRUE)

\* A loan is paid off by its minimum payment in a month in which another
\* loan receives the surplus, and the surplus grows by that payment only
\* in the month after.
C21_Witness ==
    /\ Done
    /\ extraPaymentBase > 0
    /\ LET schedule == SnowballScrapes.monthlySchedule
       IN  \E m \in 1..(Len(schedule) - 1) :
              \E k \in 1..Len(schedule[m].payments) :
                  /\ schedule[m].payments[k].isPaidOff
                  /\ ~schedule[m].payments[k].isExtraPayment
                  /\ LoanOf(schedule[m].payments[k].loanId).monthlyPayment > 0
                  /\ Targets(schedule, m) # {}
                  /\ schedule[m + 1].extraPaymentPool
                        = schedule[m].extraPaymentPool
                            + LoanOf(schedule[m].payments[k].loanId).monthlyPayment

Strategies == Runs \ {"baseline"}

\* One month of a strategy schedule has a single target: at most one entry
\* is marked isExtraPayment, it receives min(surplus, balance after Phase 1)
\* and keeps a balance of at least 0; every other entry receives nothing and
\* starts the next month from the balance Phase 1 left it (the entry of a
\* payoff month records that balance less the residue within the tolerance).
SingleTarget(schedule, m) ==
    LET entries == schedule[m].payments
        surplus == schedule[m].extraPaymentPool
    IN  /\ Cardinality(Targets(schedule, m)) <= 1
        /\ \A k \in 1..Len(entries) :
              IF entries[k].isExtraPayment
              THEN /\ entries[k].extraPayment = Min(surplus, AfterPhase1(entries[k]))
                   /\ entries[k].remainingBalance >= 0
                   /\ entries[k].remainingBalance
                         = IF AfterPhase1(entries[k]) - entries[k].extraPayment <= Tolerance
                           THEN 0
                           ELSE AfterPhase1(entries[k]) - entries[k].extraPayment
              ELSE /\ entries[k].extraPayment = 0
                   /\ entries[k].totalPayment = entries[k].minimumPayment
                   /\ \A next \in 1..(IF m < Len(schedule) THEN Len(schedule[m + 1].payments) ELSE 0) :
                         schedule[m + 1].payments[next].loanId = entries[k].loanId =>
                             entries[k].remainingBalance
                                 - schedule[m + 1].payments[next].currentBalance \in 0..Tolerance
        /\ schedule[m].totalPayment
              = SumOf(entries, "minimumPayment") + SumOf(entries, "extraPayment")
        /\ SumOf(entries, "extraPayment") <= Max(surplus, 0)

\* C22: in each month of each strategy at most one loan receives an extra
\* payment, of min(surplus, its balance after Phase 1); its balance stays
\* at least 0 and what is left of the surplus goes to no other loan.
C22_SingleTarget ==
    Done =>
        \A kind \in Strategies :
            ~RunIsNaN(kind) =>
                \A m \in 1..Len(RunSchedule(kind)) : SingleTarget(RunSchedule(kind), m)

\* The surplus exceeds the target's balance while another loan stays unpaid
\* and receives nothing of what is left.
C22_Witness ==
    /\ Done
    /\ \E kind \in Strategies :
          /\ ~RunIsNaN(kind)
          /\ \E m \in 1..Len(RunSchedule(kind)) :
                LET entries == RunSchedule(kind)[m].payments
                IN  \E k \in 1..Len(entries), other \in 1..Len(entries) :
                        /\ entries[k].isExtraPayment
                        /\ entries[k].extraPayment > 0
                        /\ entries[k].extraPayment < RunSchedule(kind)[m].extraPaymentPool
                        /\ entries[k].isPaidOff
                        /\ ~entries[other].isExtraPayment
                        /\ ~entries[other].isPaidOff
                        /\ entries[other].extraPayment = 0

\* The loans of the input whose starting balance is above 0.
StartsUnpaid(loan) == loan.currentBalance > 0

\* C23: a loan that starts with balance <= 0 is paid off from the start of
\* every run: it has no payment entry, no month counts it in remainingDebts
\* or activeLoanCount, and a list of such loans alone gives no months.
C23_PaidOffFromStart ==
    Done =>
        \A kind \in Runs :
            LET schedule == RunSchedule(kind)
                unpaid == Len(SelectSeq(loans, StartsUnpaid))
            IN  /\ \A m \in 1..Len(schedule) :
                      /\ schedule[m].remainingDebts <= unpaid
                      /\ schedule[m].activeLoanCount <= unpaid
                      /\ \A k \in 1..Len(schedule[m].payments) :
                            StartsUnpaid(LoanOf(schedule[m].payments[k].loanId))
                /\ unpaid = 0 => schedule = <<>>

\* C24: in avalanche-fixed and snowball-fixed every loan starts from a
\* balance that is a number, also when the balances of a non-empty list
\* total 0, and no payment entry then leaves a loan unpaid.
C24_NoDivisionByZero ==
    Done =>
        \A kind \in {"avalanche_fixed", "snowball_fixed"} :
            /\ \A j \in 1..Len(loans) : ~RunStart(kind)[j].nan
            /\ \A m \in 1..Len(RunSchedule(kind)) :
                  \A k \in 1..Len(RunSchedule(kind)[m].payments) :
                      /\ ~RunSchedule(kind)[m].payments[k].nan
                      /\ TotalBalance(loans) = 0 => RunSchedule(kind)[m].payments[k].isPaidOff

\* The loan starts above the tolerance with a payment that covers its
\* monthly interest.
CoversItsInterest(loan) ==
    /\ loan.currentBalance > Tolerance
    /\ loan.monthlyPayment * MonthsPerYearPercent >= loan.currentBalance * loan.interestRate

\* C25: without extra payment and lump sum, and with every loan's payment
\* covering its interest, the avalanche-fixed and snowball-fixed schedules
\* are the baseline schedule: same length and, per month and loan, the same
\* interest, principal, remaining balance and paid-off flag.
C25_FixedEqualsBaseline ==
    (Done /\ extraPaymentBase = 0 /\ lumpSum = 0
          /\ \A j \in 1..Len(loans) : CoversItsInterest(loans[j])) =>
        \A kind \in {"avalanche_fixed", "snowball_fixed"} :
            /\ Len(RunSchedule(kind)) = Len(result.baselineSchedule)
            /\ \A j \in 1..Len(loans) :
                  BaselineTrack(RunSchedule(kind), loans[j].id)
                      = BaselineTrack(result.baselineSchedule, loans[j].id)

\* Two loans that cover their interest and are paid off in different
\* months, optimized without extra payment and lump sum.
C25_Witness ==
    /\ Done
    /\ extraPaymentBase = 0
    /\ lumpSum = 0
    /\ Len(loans) = 2
    /\ \A j \in 1..Len(loans) : CoversItsInterest(loans[j])
    /\ PayoffMonthIn("snowball_fixed", 1) \in 1..MaxMonths
    /\ PayoffMonthIn("snowball_fixed", 2) \in 1..MaxMonths
    /\ PayoffMonthIn("snowball_fixed", 1) # PayoffMonthIn("snowball_fixed", 2)
    /\ PayoffMonthIn("baseline", 1) = PayoffMonthIn("snowball_fixed", 1)

\* interestSaved || 0
SavedOrZero(strategy) == OrZero(strategy.interestSaved, strategy.nan)

\* C26: no returned strategy has interestSaved above the recommended
\* strategy's by more than the band of 1000.
C26_NeverBeatenBeyondBand ==
    Done =>
        \A i \in 1..Len(result.strategies) :
            SavedOrZero(result.strategies[i]) - SavedOrZero(result.recommendedStrategy)
                <= InterestBand

\* What strategy i saves beyond the recommended strategy.
BeatsBy(i) == SavedOrZero(result.strategies[i]) - SavedOrZero(result.recommendedStrategy)

\* The best of avalanche-fixed and snowball-fixed, which the fold then
\* compares snowball+scrapes with.
BestOfFixed == IF Replaces(SnowballFixed, Avalanche) THEN SnowballFixed ELSE Avalanche

\* C26 as the fold gives it: the recommended strategy is never beaten by
\* more than twice the band; it is beaten by more than the band only when
\* snowball+scrapes is recommended, and then only by the fixed strategy it
\* was not compared with.
C26_BeatenOnlyThroughTheFold ==
    Done =>
        \A i \in 1..Len(result.strategies) :
            /\ BeatsBy(i) <= 2 * InterestBand
            /\ BeatsBy(i) > InterestBand =>
                  /\ result.recommendedStrategy = SnowballScrapes
                  /\ i \in {1, 2}
                  /\ result.strategies[i] # BestOfFixed

\* The scores 8280.43 and 81, 7453.20 and 86, 7205.91 and 87 months:
\* snowball+scrapes is recommended and avalanche-fixed saves 1074.52 more.
C26_Witness ==
    /\ Done
    /\ result.recommendedStrategy = SnowballScrapes
    /\ Avalanche.interestSaved = Cents(8280) + 43
    /\ SnowballFixed.interestSaved = Cents(7453) + 20
    /\ SnowballScrapes.interestSaved = Cents(7205) + 91
    /\ BeatsBy(1) > InterestBand

\* Loan j ends the run at balance 0: it started within the tolerance, or
\* an entry of it has isPaidOff with remainingBalance 0.
EndsPaid(kind, j) ==
    \/ /\ ~RunIsNaN(kind)
       /\ RunStart(kind)[j].currentBalance <= Tolerance
    \/ \E m \in 1..Len(RunSchedule(kind)) :
          \E k \in 1..Len(RunSchedule(kind)[m].payments) :
              /\ RunSchedule(kind)[m].payments[k].loanId = loans[j].id
              /\ RunSchedule(kind)[m].payments[k].isPaidOff
              /\ RunSchedule(kind)[m].payments[k].remainingBalance = 0

\* A schedule that stops before the ceiling is complete: every loan ends
\* paid, the last month has a payoff, and before the last month some loan
\* was still to be paid off.
CompleteSchedule(kind) ==
    LET schedule == RunSchedule(kind)
        last == Len(schedule)
    IN  /\ \A j \in 1..Len(loans) : EndsPaid(kind, j)
        /\ last > 0 => \E k \in 1..Len(schedule[last].payments) :
                           schedule[last].payments[k].isPaidOff
        /\ \A m \in 1..(last - 1) :
              \E j \in 1..Len(loans) : PayoffMonthIn(kind, j) > m

\* C27: a baseline or strategy schedule of fewer than 600 months leaves
\* every loan at balance 0, has a payoff in its last month, and has no
\* month after the one in which the last loan is paid off.
C27_ShortSchedulesComplete ==
    Done =>
        \A kind \in Runs :
            Len(RunSchedule(kind)) < MaxMonths => CompleteSchedule(kind)

\* Two loans paid off in different months of a snowball+scrapes schedule
\* that ends before the ceiling, the later payoff in its last month.
C27_Witness ==
    /\ Done
    /\ Len(loans) = 2
    /\ LET last == Len(SnowballScrapes.monthlySchedule)
       IN  /\ last \in 2..(MaxMonths - 1)
           /\ \E j \in 1..2, other \in 1..2 :
                 /\ PayoffMonthIn("snowball_scrapes", j) \in 1..(last - 1)
                 /\ PayoffMonthIn("snowball_scrapes", other) = last
    /\ Len(result.baselineSchedule) < MaxMonths

\* The aggregates of one monthly plan are numbers and are the sums over its
\* payment entries, and no loan has two entries.
PlanAggregates(plan, isNaN) ==
    /\ ~isNaN
    /\ plan.totalInterest = SumOf(plan.payments, "monthlyInterest")
    /\ plan.totalPrincipal = SumOf(plan.payments, "principalPayment")
    /\ plan.totalPayment = SumOf(plan.payments, "totalPayment")
    /\ \A k \in 1..Len(plan.payments), other \in 1..Len(plan.payments) :
          plan.payments[k].loanId = plan.payments[other].loanId => k = other

\* C28: every monthly plan of the baseline and of each strategy carries the
\* sums of its entries, with at most one entry per loan, and a strategy's
\* totalInterest is the sum over its monthly plans and the sum over its
\* perDebtDetails.
C28_AggregatesConsistent ==
    Done =>
        /\ \A m \in 1..Len(result.baselineSchedule) :
              PlanAggregates(result.baselineSchedule[m], FALSE)
        /\ \A i \in 1..Len(result.strategies) :
              LET strategy == result.strategies[i]
              IN  /\ \A m \in 1..Len(strategy.monthlySchedule) :
                        PlanAggregates(strategy.monthlySchedule[m],
                                       strategy.monthlySchedule[m].nan)
                  /\ ~strategy.nan
                  /\ strategy.totalInterest = SumOf(strategy.monthlySchedule, "totalInterest")
                  /\ strategy.totalInterest = SumOf(strategy.perDebtDetails, "totalInterest")

\* The sum of interestSaved over a strategy's perDebtDetails is the
\* strategy's interestSaved, both being numbers.
SavingsAgree(strategy) ==
    /\ ~strategy.nan
    /\ SumOf(strategy.perDebtDetails, "interestSaved") = strategy.interestSaved

\* C29: for every returned strategy the per-loan interestSaved figures add
\* up to the strategy's interestSaved.
C29_SavingsAgree ==
    Done => \A i \in 1..Len(result.strategies) : SavingsAgree(result.strategies[i])

\* The loan's own schedule, without extra payment and lump sum, stays within
\* termMonths x 3 and 600 months and, when it has items, ends paid off.
PaysOffOnItsOwn(loan) ==
    LET own == generateAmortizationSchedule(loan, 0, 0)
    IN  /\ Len(own) <= MaxMonths
        /\ own # <<>> => own[Len(own)].remainingBalance <= Tolerance

\* C29 where the two baselines agree: when every loan is paid off by its
\* own amortization schedule, the per-loan interestSaved figures of every
\* strategy with numeric totals add up to the strategy's interestSaved.
C29_SavingsAgreeWhenPaidOffAlone ==
    (Done /\ \A j \in 1..Len(loans) : PaysOffOnItsOwn(loans[j])) =>
        \A i \in 1..Len(result.strategies) :
            ~result.strategies[i].nan => SavingsAgree(result.strategies[i])

\* Two such loans with an extra payment and a lump sum, every strategy
\* saving interest.
C29_Witness ==
    /\ Done
    /\ Len(loans) = 2
    /\ loans[1].currentBalance # loans[2].currentBalance
    /\ \A j \in 1..Len(loans) :
          /\ loans[j].currentBalance > Tolerance
          /\ PaysOffOnItsOwn(loans[j])
    /\ extraPaymentBase > 0
    /\ lumpSum > 0
    /\ \A i \in 1..3 :
          /\ result.strategies[i].interestSaved > 0
          /\ SavingsAgree(result.strategies[i])

\* The balance item n starts from: the previous item's remainingBalance, or
\* the balance less the lump sum for the first item.
BalanceBefore(n) ==
    IF n = 1 THEN StartingBalance ELSE amort.schedule[n - 1].remainingBalance

\* C30: with a lump sum between zero and the balance, every item of the
\* amortization schedule has cumulativePrincipal + remainingBalance equal to
\* the loan's balance, and its remainingBalance is the balance before it
\* less its principal.
C30_PrincipalConservation ==
    (pc = "amortized" /\ amort.lumpSum >= 0 /\ amort.lumpSum <= amort.loan.currentBalance) =>
        \A n \in 1..Len(amort.schedule) :
            /\ amort.schedule[n].cumulativePrincipal + amort.schedule[n].remainingBalance
                  = amort.loan.currentBalance
            /\ amort.schedule[n].remainingBalance
                  = BalanceBefore(n) - amort.schedule[n].principal

\* A schedule of several items after a lump sum below the balance, paid
\* off by a last principal that was capped at the balance.
C30_Witness ==
    /\ pc = "amortized"
    /\ amort.lumpSum > 0
    /\ amort.lumpSum < amort.loan.currentBalance
    /\ amort.extraPayment > 0
    /\ Len(amort.schedule) >= 3
    /\ LastItem.remainingBalance = 0
    /\ LastItem.principal < amort.schedule[1].principal
    /\ LastItem.cumulativePrincipal = amort.loan.currentBalance

====
